---- MODULE Spec2Model ----
(***************************************************************************)
(* Inbound gateway of astrbot_plugin_minecraft_adapter: the connection     *)
(* registry (gateway_registry.py), the accept / read / cleanup path of     *)
(* ws_handler and the dispatch of _handle_text                             *)
(* (gateway_platform_adapter.py) and the five request functions (api.py).  *)
(*                                                                         *)
(* Scheduling is asyncio's: one event loop, tasks interleave only where an *)
(* await really suspends.  The registry lock is never held across a        *)
(* suspension (the three lock bodies are synchronous), so acquiring it     *)
(* never suspends and every registry call runs inside the step that makes  *)
(* it.  The suspension points modelled are ws.prepare, websocket.close,    *)
(* send_json (drain), the read loop's receive and asyncio.wait_for.        *)
(*                                                                         *)
(* Outbound client (websocket_client.py): start, stop, reconnect, the      *)
(* _connect_loop tasks, _handle_message and send_message of one            *)
(* WebSocketClient.  It shares no state with the inbound gateway.  Its     *)
(* clock ticks once a second: asyncio.sleep(reconnect_interval) of the     *)
(* loop and asyncio.sleep(1) of reconnect's poll run on it.                *)
(***************************************************************************)
EXTENDS Integers, Sequences, FiniteSets, TLC

\* ---------------------------------------------------------------- bounds
MaxConns == 3      \* inbound connection attempts (one ws_handler task each)
MaxReqs == 2       \* caller tasks of the request functions
MaxTimeout == 1    \* largest timeout_sec a caller passes, in clock ticks
MaxRecv == 1       \* envelopes the peers send over one run
MaxTasks == 3      \* tasks (ws_handler and caller tasks together) started over one run
MaxReadTasks == 2  \* the same, over one run that explores the read loop
MaxReadRecv == 3   \* frames the peers send over one run that explores the read loop
MaxLoops == 2      \* _connect_loop tasks created over one run
MaxDials == 2      \* transports the client opens over one run
MaxClientRecv == 3 \* frames the server sends the client over one run
MaxSends == 2      \* send_message calls over one run
MaxBothRecv == 2   \* frames each role receives over one run of both roles
MaxPendTasks == 3  \* tasks over one run that explores frames arriving while callers wait
MaxPendRecv == 3   \* frames the peers send over such a run
MaxLifeRecv == 2   \* frames the server sends over one run of start / stop / reconnect
MaxRecTimeout == 2 \* largest timeout a caller passes to reconnect, in seconds
MaxRegs == 2       \* register_handler calls over one run
reconnect_interval == 1  \* config.reconnect_interval, in seconds
MaxSendTasks == 3  \* tasks over one run of connections, callers and senders
MaxBcast == 1      \* send_by_session / MinecraftGatewayEvent.send calls over one run
MaxInst == 3       \* MinecraftAdapter instances created over one run
MaxLockTasks == 3  \* tasks using the registry over one run of the event loop

Conns == 1..MaxConns
Reqs == 1..MaxReqs
Loops == 1..MaxLoops
Dials == 1..MaxDials
None == 0

\* ------------------------------------------------------- configuration
\* the whitelist self._auth built by __init__ from server_ids / tokens
Ids == {"A", "B"}
_auth == [s \in Ids |-> IF s = "A" THEN "tA" ELSE "tB"]
\* self._path
_path == "/mc"

\* what a connecting peer may present: the request path and the serverId and
\* token query parameters as they arrive (" A" and " tA" carry surrounding
\* whitespace, " " is whitespace only)
Paths == {"/mc", "/other"}
PeerIds == {"A", "B", "Z", "", " A", " "}
PeerTokens == {"tA", "tB", "", " tA"}

\* str.strip() on those parameters
strip(s) ==
  CASE s = " A" -> "A"
    [] s = " tA" -> "tA"
    [] s = " " -> ""
    [] OTHER -> s

\* the five request functions of api.py
Kinds == {"BIND_CONFIRM", "BINDING_QUERY", "LANDS_QUERY", "PLAYTIME_QUERY",
          "EXTERNAL_ACCOUNT_QUERY"}

\* the "type" each request function puts in its envelope
RequestType(k) ==
  CASE k = "BIND_CONFIRM" -> "BIND_CONFIRM_REQUEST"
    [] k = "BINDING_QUERY" -> "BINDING_QUERY_REQUEST"
    [] k = "LANDS_QUERY" -> "LANDS_QUERY_REQUEST"
    [] k = "PLAYTIME_QUERY" -> "PLAYTIME_QUERY_REQUEST"
    [] k = "EXTERNAL_ACCOUNT_QUERY" -> "EXTERNAL_ACCOUNT_QUERY_REQUEST"

\* the response type the peer answers a request type with
ResponseType(k) ==
  CASE k = "BIND_CONFIRM" -> "BIND_CONFIRM_RESPONSE"
    [] k = "BINDING_QUERY" -> "BINDING_QUERY_RESPONSE"
    [] k = "LANDS_QUERY" -> "LANDS_QUERY_RESPONSE"
    [] k = "PLAYTIME_QUERY" -> "PLAYTIME_QUERY_RESPONSE"
    [] k = "EXTERNAL_ACCOUNT_QUERY" -> "EXTERNAL_ACCOUNT_QUERY_RESPONSE"

ResponseTypes == {ResponseType(k) : k \in Kinds}

\* reply payloads (data.get("payload") or {})
Payloads == {"p1"}

VARIABLES
  registry,     \* _by_server_id: the dict, as a set of <<server_id, conn>> items
  hpc,          \* ws_handler task of each connection attempt: where it is suspended
  sid,          \* server_id of the attempt (stripped)
  token,        \* token of the attempt (stripped)
  resp,         \* HTTP status a refused attempt was answered with (0: none)
  old,          \* ws_handler's local `old` while it closes that connection (dead afterwards)
  ws,           \* transport of the attempt: "none", "open", "closed"
  closeReason,  \* why the transport closed: "none", "peer", "replaced"
  cleanupLog,   \* which "disconnected" line the finally block logged: "none", "own", "replaced"
  pending,      \* ServerConnection.pending_by_reply_to: the request ids in it
  sent,         \* envelopes written on the transport, in order
  rpc,          \* request task: where it is suspended
  kind,         \* which request function the task runs
  rsid,         \* the task's server_id argument
  rconn,        \* the task's local `conn`
  timeoutSec,   \* timeout_sec
  fut,          \* the task's future: "none", "pending", "result", "cancelled"
  futValue,     \* the future's result
  elapsed,      \* clock ticks since wait_for started
  outcome,      \* how the call ended
  returned,     \* the value the call returned
  reported,     \* the identities the "not connected" error lists
  removals,     \* how many times an entry under the request id was removed
  setResults,   \* how many times set_result ran on the task's future
  recvCount,    \* envelopes received so far
  lastSeen,     \* ServerConnection.last_seen_ms, as the arrival number of the envelope
  events,       \* events committed to the platform queue, in order
  warned,       \* the last warning the read path logged for the connection, and at
                \* which frame
  \* the outbound client
  running,        \* self.running
  authenticated,  \* self.authenticated
  client_ws,      \* self.ws: the transport, or None
  ws_task,        \* self.ws_task: the _connect_loop task start created last
  auto_reconnect, \* config.auto_reconnect
  lpc,            \* _connect_loop task: where it is suspended
  lws,            \* _connect_loop task: its local `ws`
  tstate,         \* transport: "none", "open" (close_code is None), "closed", "error"
  csent,          \* what the client sent on the transport, in order
  authOn,         \* the transports on which auth_success was received
  seenOn,         \* the transports on which auth_required / auth_failed was received
  delivered,      \* the message types passed to a registered handler, in order
  clog,           \* the last error _handle_message logged, and at which frame
  crecvCount,     \* frames received so far
  sendResult,     \* what send_message returned last
  sendCount,      \* send_message calls so far
  _message_handlers, \* self._message_handlers: the message types a handler is registered for
  sleepLeft,      \* _connect_loop task: seconds left of asyncio.sleep(reconnect_interval)
  lcancel,        \* _connect_loop task: Task.cancel() was called, CancelledError not yet raised in it
  spc,            \* stop(): where the call is suspended
  stask,          \* stop(): the task it awaits
  sws,            \* stop(): the transport it closes
  recpc,          \* reconnect(): where the call is suspended
  recTimeout,     \* reconnect(): timeout
  recPolls,       \* reconnect(): polls made
  recDue,         \* reconnect(): asyncio.sleep(1) of the current poll has elapsed
  recResult,      \* reconnect(): what it reported
  recFrom,        \* reconnect(): how many transports had been opened when it was called
  recClosed,      \* reconnect(): the transport it closed, or None
  \* the senders of the inbound gateway
  bcastCount,     \* send_by_session / MinecraftGatewayEvent.send calls so far
  bcastResult,    \* how the last of them ended: "none", "sent", "skipped", "raised"
  bcastCall,      \* the arguments of the last of them
  \* the plugin instances of main.py
  _instance_running,     \* MinecraftAdapter._instance_running, the class-level flag
  ipos,                  \* per instance: "absent", "idle", or where terminate is suspended
  status_check_interval, \* per instance: config.status_check_interval
  ws_running,            \* per instance: ws_client.running
  status_task,           \* per instance: "none", "running", "done"
  start_skipped,         \* per instance: _safe_start returned at the flag test
  \* the registry lock and the tasks of the event loop that use the registry
  _lock,          \* gateway_registry._lock: the task holding it, or None
  cur,            \* the task the event loop is running, or None
  tkind,          \* per task: the coroutine it runs, "none" before it is created
  tpc,            \* per task: its position in the coroutine
  tst,            \* per task: "none", "scheduled", "running", "awaiting", "lock_wait", "done"
  tgot            \* per task: what its last get_connection returned

gwVars == <<registry, hpc, sid, token, resp, old, ws, closeReason, cleanupLog, pending, sent,
          rpc, kind, rsid, rconn, timeoutSec, fut, futValue, elapsed, outcome,
          returned, reported, removals, setResults, recvCount, lastSeen, events, warned>>

\* the state of stop() and reconnect() and of the loops' sleeps and cancellations
lifeVars == <<sleepLeft, lcancel, spc, stask, sws, recpc, recTimeout, recPolls, recDue,
              recResult, recFrom, recClosed>>

clientVars == <<running, authenticated, client_ws, ws_task, auto_reconnect, lpc, lws, tstate,
                csent, authOn, seenOn, delivered, clog, crecvCount, sendResult,
                sendCount, _message_handlers, lifeVars>>

\* the calls of send_by_session and MinecraftGatewayEvent.send
bcastVars == <<bcastCount, bcastResult, bcastCall>>

\* the plugin instances: the class flag and each instance's client and status task
instVars == <<_instance_running, ipos, status_check_interval, ws_running, status_task,
              start_skipped>>

\* the registry lock and the tasks that take it
lockVars == <<_lock, cur, tkind, tpc, tst, tgot>>

moreVars == <<bcastVars, instVars, lockVars>>

vars == <<gwVars, clientVars, moreVars>>

recvVars == <<recvCount, lastSeen, events, warned>>
connVars == <<hpc, sid, token, resp, old, ws, closeReason, cleanupLog>>
reqVars == <<rpc, kind, rsid, rconn, timeoutSec, fut, futValue, elapsed, outcome,
             returned, reported, removals, setResults>>

\* ------------------------------------------------------ the dict, as items
DictKeys(d) == {p[1] : p \in d}
DictGet(d, k) == IF \E p \in d : p[1] = k THEN (CHOOSE p \in d : p[1] = k)[2] ELSE None
\* a store that adds the item and keeps the one already under the key
DictSetKeepsOld(d, k, v) == d \cup {<<k, v>>}

DictSet(d, k, v) == {p \in d : p[1] # k} \cup {<<k, v>>}
\* a removal that empties the dict
DictPop_All(d, k) == {}

DictPop(d, k) == {p \in d : p[1] # k}

\* ------------------------------------------------------------ the registry
\* set_connection's body under the lock
set_connection(d, server_id, conn) ==
  IF conn = None THEN DictPop(d, server_id) ELSE DictSet(d, server_id, conn)

\* a lookup that also finds a connection whose handler has not registered it yet
get_connection_Early(d, server_id) ==
  IF \E c \in Conns : sid[c] = server_id /\ hpc[c] = "prepared"
    THEN CHOOSE c \in Conns : sid[c] = server_id /\ hpc[c] = "prepared"
    ELSE DictGet(d, server_id)

\* get_connection's result
get_connection(d, server_id) == DictGet(d, server_id)

\* a listing that comes back empty
list_server_ids_Empty(d) == {}

\* list_server_ids's result (the keys; the order is not modelled)
list_server_ids(d) == DictKeys(d)

\* the message types _register_ws_handlers of main.py registers a handler for
_register_ws_handlers == {"chat", "ai_chat", "player_join", "player_leave", "status_response"}

\* the client after __init__ of MinecraftAdapter, which registers its handlers
InitClient ==
  /\ running = FALSE
  /\ authenticated = FALSE
  /\ client_ws = None
  /\ ws_task = None
  /\ lpc = [l \in Loops |-> "unborn"]
  /\ lws = [l \in Loops |-> None]
  /\ tstate = [w \in Dials |-> "none"]
  /\ csent = [w \in Dials |-> <<>>]
  /\ authOn = {}
  /\ seenOn = [w \in Dials |-> {}]
  /\ delivered = <<>>
  /\ clog = [what |-> "none", at |-> 0]
  /\ crecvCount = 0
  /\ sendResult = "none"
  /\ sendCount = 0
  /\ _message_handlers = _register_ws_handlers
  /\ sleepLeft = [l \in Loops |-> 0]
  /\ lcancel = [l \in Loops |-> FALSE]
  /\ spc = "idle"
  /\ stask = None
  /\ sws = None
  /\ recpc = "idle"
  /\ recTimeout = 0
  /\ recPolls = 0
  /\ recDue = FALSE
  /\ recResult = "none"
  /\ recFrom = 0
  /\ recClosed = None

\* the gateway after __init__, its registry empty
InitGateway ==
  /\ registry = {}
  /\ hpc = [c \in Conns |-> "new"]
  /\ sid = [c \in Conns |-> ""]
  /\ token = [c \in Conns |-> ""]
  /\ resp = [c \in Conns |-> 0]
  /\ old = [c \in Conns |-> None]
  /\ ws = [c \in Conns |-> "none"]
  /\ closeReason = [c \in Conns |-> "none"]
  /\ cleanupLog = [c \in Conns |-> "none"]
  /\ pending = [c \in Conns |-> {}]
  /\ sent = [c \in Conns |-> <<>>]
  /\ rpc = [r \in Reqs |-> "idle"]
  /\ kind = [r \in Reqs |-> "BIND_CONFIRM"]
  /\ rsid = [r \in Reqs |-> ""]
  /\ rconn = [r \in Reqs |-> None]
  /\ timeoutSec = [r \in Reqs |-> 1]
  /\ fut = [r \in Reqs |-> "none"]
  /\ futValue = [r \in Reqs |-> "none"]
  /\ elapsed = [r \in Reqs |-> 0]
  /\ outcome = [r \in Reqs |-> "none"]
  /\ returned = [r \in Reqs |-> "none"]
  /\ reported = [r \in Reqs |-> {}]
  /\ removals = [r \in Reqs |-> 0]
  /\ setResults = [r \in Reqs |-> 0]
  /\ recvCount = 0
  /\ lastSeen = [c \in Conns |-> 0]
  /\ events = <<>>
  /\ warned = [c \in Conns |-> [what |-> "none", at |-> 0]]

\* the tasks of the event loop that use the registry; a ws_handler task t serves
\* connection t
LockTasks == 1..MaxLockTasks

\* the MinecraftAdapter objects the host may create
Instances == 1..MaxInst

\* no sender has been called, no plugin instance exists
InitMore ==
  /\ bcastCount = 0
  /\ bcastResult = "none"
  /\ bcastCall = [server_id |-> "", player_uuid |-> "NONE", text |-> ""]
  /\ _instance_running = FALSE
  /\ ipos = [i \in Instances |-> "absent"]
  /\ status_check_interval = [i \in Instances |-> 0]
  /\ ws_running = [i \in Instances |-> FALSE]
  /\ status_task = [i \in Instances |-> "none"]
  /\ start_skipped = [i \in Instances |-> FALSE]
  /\ _lock = None
  /\ cur = None
  /\ tkind = [t \in LockTasks |-> "none"]
  /\ tpc = [t \in LockTasks |-> 1]
  /\ tst = [t \in LockTasks |-> "none"]
  /\ tgot = [t \in LockTasks |-> None]

Init == InitGateway /\ InitClient /\ InitMore /\ auto_reconnect = TRUE

\* the tasks started so far
Started == Cardinality({c \in Conns : hpc[c] # "new"}) + Cardinality({r \in Reqs : rpc[r] # "idle"})

\* ------------------------------------------------------------- ws_handler
\* checks that leave the path check out
Refusal_NoPathCheck(path, server_id, tok) ==
  IF server_id = "" \/ tok = "" THEN 401
  ELSE IF server_id \notin DOMAIN _auth \/ _auth[server_id] # tok THEN 403
  ELSE 0

\* checks that look the identity up and leave the token comparison out
Refusal_NoTokenCheck(path, server_id, tok) ==
  IF path # _path THEN 404
  ELSE IF server_id = "" \/ tok = "" THEN 401
  ELSE IF server_id \notin DOMAIN _auth THEN 403
  ELSE 0

\* the checks before the upgrade, on the stripped parameters: 404 / 401 / 403,
\* or 0 when the attempt passes
Refusal(path, server_id, tok) ==
  IF path # _path THEN 404
  ELSE IF server_id = "" \/ tok = "" THEN 401
  ELSE IF server_id \notin DOMAIN _auth \/ _auth[server_id] # tok THEN 403
  ELSE 0

\* path / serverId / token checks, then ws.prepare (suspends).  A refused attempt
\* gets its HTTP response and its handler ends.
Accept(c, path, qsServerId, qsToken) ==
  /\ hpc[c] = "new"
  /\ \A b \in Conns : b < c => hpc[b] # "new"
  /\ resp' = [resp EXCEPT ![c] = Refusal(path, strip(qsServerId), strip(qsToken))]
  /\ IF resp'[c] # 0
       THEN /\ hpc' = [hpc EXCEPT ![c] = "rejected"]
            /\ UNCHANGED <<sid, token, ws>>
       ELSE /\ hpc' = [hpc EXCEPT ![c] = "prepared"]
            /\ sid' = [sid EXCEPT ![c] = strip(qsServerId)]
            /\ token' = [token EXCEPT ![c] = strip(qsToken)]
            /\ ws' = [ws EXCEPT ![c] = "open"]
  /\ UNCHANGED <<registry, old, closeReason, cleanupLog, pending, sent, reqVars, recvVars, clientVars, moreVars>>

\* an acknowledgement that leaves the identity out
ConnectionAck_NoIdentity(server_id) == [type |-> "CONNECTION_ACK", id |-> "uuid", payload |-> ""]

\* the envelope ws_handler sends once the connection is registered
ConnectionAck(server_id) == [type |-> "CONNECTION_ACK", id |-> "uuid", payload |-> server_id]

\* a close that carries no reason
CloseReplaced_NoReason(reasons, o) == [reasons EXCEPT ![o] = "peer"]

\* websocket.close(code=1000, message=b"replaced") on transport o: an open
\* transport closes with that reason, a closed one stays as it is
CloseReplaced(reasons, o) ==
  IF ws[o] = "open" THEN [reasons EXCEPT ![o] = "replaced"] ELSE reasons

\* conn = ServerConnection(...); set_connection(server_id, conn); send_json(ack).
\* send_json on a transport that is no longer open raises, and the exception
\* leaves ws_handler before its try block is entered.
Register(c) ==
  /\ registry' = set_connection(registry, sid[c], c)
  /\ pending' = [pending EXCEPT ![c] = {}]
  /\ old' = [old EXCEPT ![c] = None]
  /\ IF ws[c] = "open"
       THEN /\ sent' = [sent EXCEPT ![c] = Append(@, ConnectionAck(sid[c]))]
            /\ hpc' = [hpc EXCEPT ![c] = "acking"]
       ELSE /\ hpc' = [hpc EXCEPT ![c] = "crashed"]
            /\ UNCHANGED sent

\* old = get_connection(server_id); an open old transport is closed, which
\* suspends this handler; with no old connection, or one already closed
\* (close returns at once), the handler goes on to register
BeginReplace(c) ==
  /\ hpc[c] = "prepared"
  /\ IF get_connection(registry, sid[c]) # None /\ ws[get_connection(registry, sid[c])] = "open"
       THEN /\ old' = [old EXCEPT ![c] = get_connection(registry, sid[c])]
            /\ ws' = [ws EXCEPT ![old'[c]] = "closed"]
            /\ closeReason' = CloseReplaced(closeReason, old'[c])
            /\ hpc' = [hpc EXCEPT ![c] = "closing"]
            /\ UNCHANGED <<registry, pending, sent>>
       ELSE /\ Register(c)
            /\ UNCHANGED <<ws, closeReason>>
  /\ UNCHANGED <<sid, token, resp, cleanupLog, reqVars, recvVars, clientVars, moreVars>>

\* old.websocket.close(...) returns: register the new connection
FinishReplace(c) ==
  /\ hpc[c] = "closing"
  /\ Register(c)
  /\ UNCHANGED <<sid, token, resp, ws, closeReason, cleanupLog, reqVars, recvVars, clientVars, moreVars>>

\* send_json(ack) returns: the read loop starts
AckDone(c) ==
  /\ hpc[c] = "acking"
  /\ hpc' = [hpc EXCEPT ![c] = "reading"]
  /\ UNCHANGED <<registry, sid, token, resp, old, ws, closeReason, cleanupLog, pending, sent, reqVars, recvVars, clientVars, moreVars>>

\* send_json(ack) raises while draining to a transport that closed meanwhile
AckFail(c) ==
  /\ hpc[c] = "acking"
  /\ ws[c] = "closed"
  /\ hpc' = [hpc EXCEPT ![c] = "crashed"]
  /\ UNCHANGED <<registry, sid, token, resp, old, ws, closeReason, cleanupLog, pending, sent, reqVars, recvVars, clientVars, moreVars>>

\* the peer closes the transport, or the network drops it
PeerClose(c) ==
  /\ ws[c] = "open"
  /\ ws' = [ws EXCEPT ![c] = "closed"]
  /\ closeReason' = [closeReason EXCEPT ![c] = "peer"]
  /\ UNCHANGED <<registry, hpc, sid, token, resp, old, cleanupLog, pending, sent, reqVars, recvVars, clientVars, moreVars>>

\* a guard that only checks that the slot is taken
OwnsSlot_AnyConn(d, c) == get_connection(d, sid[c]) # None

\* the stale-disconnect guard: current is not None and current.websocket is ws
OwnsSlot(d, c) == get_connection(d, sid[c]) # None /\ get_connection(d, sid[c]) = c

\* the finally block of ws_handler, run when the read loop ends
Cleanup(c) ==
  /\ hpc[c] = "reading"
  /\ ws[c] = "closed"
  /\ registry' = IF OwnsSlot(registry, c)
                   THEN set_connection(registry, sid[c], None)
                   ELSE registry
  /\ cleanupLog' = [cleanupLog EXCEPT ![c] = IF OwnsSlot(registry, c) THEN "own" ELSE "replaced"]
  /\ hpc' = [hpc EXCEPT ![c] = "done"]
  /\ UNCHANGED <<sid, token, resp, old, ws, closeReason, pending, sent, reqVars, recvVars, clientVars, moreVars>>

\* ------------------------------------------------------ request functions
\* the envelope a request function sends; the uuid4 request id is the task's number
RequestEnvelope(r, k) == [type |-> RequestType(k), id |-> r, payload |-> "request"]

\* a wait that is given no time
WaitTimeout_Zero(r) == 0

\* the timeout handed to asyncio.wait_for
WaitTimeout(r) == timeoutSec[r]

\* get_connection; "not connected" when there is none; else the pending entry
\* is stored and the request envelope sent.  send_json on a transport that is
\* no longer open raises, and the statement is outside the try / finally.
Issue(r, k, server_id, t) ==
  /\ rpc[r] = "idle"
  /\ \A q \in Reqs : q < r => rpc[q] # "idle"
  /\ kind' = [kind EXCEPT ![r] = k]
  /\ rsid' = [rsid EXCEPT ![r] = server_id]
  /\ timeoutSec' = [timeoutSec EXCEPT ![r] = t]
  /\ rconn' = [rconn EXCEPT ![r] = get_connection(registry, server_id)]
  /\ IF rconn'[r] = None
       THEN /\ outcome' = [outcome EXCEPT ![r] = "NotConnected"]
            /\ reported' = [reported EXCEPT ![r] = list_server_ids(registry)]
            /\ rpc' = [rpc EXCEPT ![r] = "done"]
            /\ UNCHANGED <<pending, fut, sent>>
       ELSE /\ fut' = [fut EXCEPT ![r] = "pending"]
            /\ pending' = [pending EXCEPT ![rconn'[r]] = @ \cup {r}]
            /\ IF ws[rconn'[r]] = "open"
                 THEN /\ sent' = [sent EXCEPT ![rconn'[r]] = Append(@, RequestEnvelope(r, k))]
                      /\ rpc' = [rpc EXCEPT ![r] = "sending"]
                      /\ UNCHANGED outcome
                 ELSE /\ outcome' = [outcome EXCEPT ![r] = "SendError"]
                      /\ rpc' = [rpc EXCEPT ![r] = "done"]
                      /\ UNCHANGED sent
            /\ UNCHANGED reported
  /\ UNCHANGED <<registry, connVars, futValue, elapsed, returned, removals, setResults, recvVars, clientVars, moreVars>>

\* send_json returns: the try block is entered and wait_for starts its timer
SendDone(r) ==
  /\ rpc[r] = "sending"
  /\ rpc' = [rpc EXCEPT ![r] = "waiting"]
  /\ elapsed' = [elapsed EXCEPT ![r] = 0]
  /\ UNCHANGED <<registry, connVars, pending, sent, kind, rsid, rconn, timeoutSec, fut, futValue,
                 outcome, returned, reported, removals, setResults, recvVars, clientVars, moreVars>>

\* send_json raises while draining to a transport that closed meanwhile
SendFail(r) ==
  /\ rpc[r] = "sending"
  /\ ws[rconn[r]] = "closed"
  /\ rpc' = [rpc EXCEPT ![r] = "done"]
  /\ outcome' = [outcome EXCEPT ![r] = "SendError"]
  /\ UNCHANGED <<registry, connVars, pending, sent, kind, rsid, rconn, timeoutSec, fut, futValue,
                 elapsed, returned, reported, removals, setResults, recvVars, clientVars, moreVars>>

\* finally: conn.pending_by_reply_to.pop(request_id, None)
FinallyPop(r) ==
  /\ pending' = [pending EXCEPT ![rconn[r]] = @ \ {r}]
  /\ removals' = [removals EXCEPT ![r] = IF r \in pending[rconn[r]] THEN @ + 1 ELSE @]

\* the clock advances for the requests whose wait_for timer is running
Tick ==
  /\ \E r \in Reqs : rpc[r] = "waiting" /\ elapsed[r] < WaitTimeout(r)
  /\ elapsed' = [r \in Reqs |->
                   IF rpc[r] = "waiting" /\ elapsed[r] < WaitTimeout(r)
                     THEN elapsed[r] + 1 ELSE elapsed[r]]
  /\ UNCHANGED <<registry, connVars, pending, sent, rpc, kind, rsid, rconn, timeoutSec, fut,
                 futValue, outcome, returned, reported, removals, setResults, recvVars, clientVars, moreVars>>

\* wait_for's timer fires: the waiter is released, the task is scheduled
TimerFire(r) ==
  /\ rpc[r] = "waiting"
  /\ elapsed[r] >= WaitTimeout(r)
  /\ rpc' = [rpc EXCEPT ![r] = "timerfired"]
  /\ UNCHANGED <<registry, connVars, pending, sent, kind, rsid, rconn, timeoutSec, fut, futValue,
                 elapsed, outcome, returned, reported, removals, setResults, recvVars, clientVars, moreVars>>

\* the task resumes in wait_for: a future that is done gives its result (and the
\* finally pops); otherwise the timer fired, the future is cancelled and the task
\* waits for the cancellation to be delivered
Wake(r) ==
  /\ \/ rpc[r] = "timerfired"
     \/ rpc[r] = "waiting" /\ fut[r] = "result"
  /\ IF fut[r] = "result"
       THEN /\ outcome' = [outcome EXCEPT ![r] = "Reply"]
            /\ returned' = [returned EXCEPT ![r] = futValue[r]]
            /\ rpc' = [rpc EXCEPT ![r] = "done"]
            /\ FinallyPop(r)
            /\ UNCHANGED fut
       ELSE /\ fut' = [fut EXCEPT ![r] = "cancelled"]
            /\ rpc' = [rpc EXCEPT ![r] = "timeoutwait"]
            /\ UNCHANGED <<outcome, returned, pending, removals>>
  /\ UNCHANGED <<registry, connVars, sent, kind, rsid, rconn, timeoutSec, futValue, elapsed,
                 reported, setResults, recvVars, clientVars, moreVars>>

\* wait_for raises TimeoutError; finally pops
FinishTimeout(r) ==
  /\ rpc[r] = "timeoutwait"
  /\ outcome' = [outcome EXCEPT ![r] = "Timeout"]
  /\ rpc' = [rpc EXCEPT ![r] = "done"]
  /\ FinallyPop(r)
  /\ UNCHANGED <<registry, connVars, sent, kind, rsid, rconn, timeoutSec, fut, futValue, elapsed,
                 returned, reported, setResults, recvVars, clientVars, moreVars>>

\* the calling task is cancelled.  Suspended in send_json, CancelledError leaves
\* the function before the try block; suspended in wait_for, a future that is
\* done gives its result, else it is cancelled, and the finally pops.
CancelCaller(r) ==
  /\ rpc[r] \in {"sending", "waiting", "timerfired"}
  /\ rpc' = [rpc EXCEPT ![r] = "done"]
  /\ IF rpc[r] = "sending"
       THEN /\ outcome' = [outcome EXCEPT ![r] = "Cancelled"]
            /\ UNCHANGED <<pending, removals, fut, returned>>
       ELSE /\ FinallyPop(r)
            /\ IF fut[r] = "result"
                 THEN /\ outcome' = [outcome EXCEPT ![r] = "Reply"]
                      /\ returned' = [returned EXCEPT ![r] = futValue[r]]
                      /\ UNCHANGED fut
                 ELSE /\ outcome' = [outcome EXCEPT ![r] = "Cancelled"]
                      /\ fut' = [fut EXCEPT ![r] = "cancelled"]
                      /\ UNCHANGED returned
  /\ UNCHANGED <<registry, connVars, sent, kind, rsid, rconn, timeoutSec, futValue, elapsed,
                 reported, setResults, recvVars, clientVars, moreVars>>

\* ------------------------------------------------------------ _handle_text
\* what a peer may send as one text frame: text that is no JSON, JSON that is no
\* object, and envelopes; the payload of a forwarded message or an issued bind
\* code is an object with content ("text"), one without (""), or no object ("bad")
Msgs ==
  {[type |-> t, id |-> "m", replyTo |-> None, payload |-> "none"] :
     t \in {"INVALID_JSON", "NOT_AN_OBJECT", "UNKNOWN_TYPE"}}
  \cup {[type |-> "HEARTBEAT", id |-> i, replyTo |-> None, payload |-> "none"] : i \in {"h1", ""}}
  \cup {[type |-> t, id |-> "m", replyTo |-> q, payload |-> p] :
          t \in ResponseTypes, q \in Reqs \cup {None}, p \in Payloads}
  \cup {[type |-> t, id |-> "m", replyTo |-> None, payload |-> p] :
          t \in {"MESSAGE_FORWARD", "BIND_CODE_ISSUED"}, p \in {"text", "", "bad"}}

\* json.loads(raw) raises
InvalidJson(m) == m.type = "INVALID_JSON"

\* _handle_text raises: data.get on JSON that is no object, payload.get in
\* _commit_chat_event / _commit_bind_code_event on a payload that is no object
HandlerRaises(m) ==
  \/ m.type = "NOT_AN_OBJECT"
  \/ m.type \in {"MESSAGE_FORWARD", "BIND_CODE_ISSUED"} /\ m.payload = "bad"

\* the frames _handle_text handles without a warning
Envelopes == {m \in Msgs : ~InvalidJson(m) /\ ~HandlerRaises(m)}

\* the reply branch is taken for this message type only
IsReplyType(t) == t = "BIND_CONFIRM_RESPONSE"

\* a test that takes every replyTo for a pending id
ReplyMatches_Any(c, m) == m.replyTo # None

\* a test that looks the replyTo up in the pending table of every connection
ReplyMatches_AnyConn(c, m) == m.replyTo # None /\ \E b \in Conns : m.replyTo \in pending[b]

\* if reply_to and reply_to in conn.pending_by_reply_to
ReplyMatches(c, m) == m.replyTo # None /\ m.replyTo \in pending[c]

\* a fulfilment that reaches every future still pending
set_result_All(f, q) == [r \in Reqs |-> IF f[r] = "pending" THEN "result" ELSE f[r]]

\* fut.set_result(payload), on the future popped under reply_to
set_result(f, q) == [f EXCEPT ![q] = "result"]

\* a check that lets every future through
NotDone_Unchecked(f) == TRUE

\* if not fut.done()
NotDone(f) == f \notin {"result", "cancelled"}

\* a timestamp update that reaches every connection
Touch_All(ls, c, now) == [d \in Conns |-> now]

\* conn.last_seen_ms = _now_ms()
Touch(ls, c, now) == [ls EXCEPT ![c] = now]

\* an acknowledgement that always takes a fresh id
HeartbeatAck_FreshId(m) == [type |-> "HEARTBEAT_ACK", id |-> "uuid", payload |-> "empty"]

\* the HEARTBEAT_ACK envelope: mid = data.get("id") or str(uuid4())
HeartbeatAck(m) ==
  [type |-> "HEARTBEAT_ACK", id |-> IF m.id # "" THEN m.id ELSE "uuid", payload |-> "empty"]

\* _commit_chat_event / _commit_bind_code_event: the event committed, if any
CommittedEvent(c, m) ==
  IF m.payload = "" THEN <<>>
  ELSE IF m.type = "MESSAGE_FORWARD" THEN <<[type |-> "GROUP_MESSAGE", session |-> sid[c]]>>
  ELSE <<[type |-> "FRIEND_MESSAGE", session |-> sid[c]]>>

\* a read loop that a raising handler ends
AfterFrame_RaiseEnds(m) == IF HandlerRaises(m) THEN "crashed" ELSE "reading"

\* the read loop after a frame: `except Exception` around _handle_text keeps it
\* reading
AfterFrame(m) == "reading"

\* a read loop that stands still while a caller waits on its connection
ReadLoopRuns_WhenIdle(c) == hpc[c] = "reading" /\ ws[c] = "open" /\ pending[c] = {}

\* `async for msg in ws` of ws_handler c takes the next frame: the task is in its
\* read loop and the transport is open; the callers suspended in wait_for are
\* other tasks
ReadLoopRuns(c) == hpc[c] = "reading" /\ ws[c] = "open"

\* one text frame read by the loop of ws_handler and handled by _handle_text; text
\* that is no JSON is logged and dropped by _handle_text, an exception it raises
\* is caught and logged by the loop, which goes on reading
RecvText(c, m) ==
  /\ ReadLoopRuns(c)
  /\ hpc' = [hpc EXCEPT ![c] = AfterFrame(m)]
  /\ recvCount' = recvCount + 1
  /\ lastSeen' = Touch(lastSeen, c, recvCount')
  /\ warned' = [warned EXCEPT ![c] =
                  IF InvalidJson(m) THEN [what |-> "invalid json", at |-> recvCount']
                  ELSE IF HandlerRaises(m) THEN [what |-> "handler error", at |-> recvCount']
                  ELSE @]
  /\ IF m.type = "HEARTBEAT"
       THEN /\ sent' = [sent EXCEPT ![c] = Append(@, HeartbeatAck(m))]
            /\ UNCHANGED <<pending, fut, futValue, removals, setResults, events>>
     ELSE IF IsReplyType(m.type)
       THEN /\ IF ReplyMatches(c, m)
                 THEN /\ pending' = [pending EXCEPT ![c] = @ \ {m.replyTo}]
                      /\ removals' = [removals EXCEPT ![m.replyTo] = @ + 1]
                      /\ IF NotDone(fut[m.replyTo])
                           THEN /\ fut' = set_result(fut, m.replyTo)
                                /\ futValue' = [futValue EXCEPT ![m.replyTo] = m.payload]
                                /\ setResults' = [setResults EXCEPT ![m.replyTo] = @ + 1]
                           ELSE UNCHANGED <<fut, futValue, setResults>>
                 ELSE UNCHANGED <<pending, fut, futValue, removals, setResults>>
            /\ UNCHANGED <<sent, events>>
     ELSE IF m.type \in {"MESSAGE_FORWARD", "BIND_CODE_ISSUED"} /\ ~HandlerRaises(m)
       THEN /\ events' = events \o CommittedEvent(c, m)
            /\ UNCHANGED <<pending, fut, futValue, removals, setResults, sent>>
     ELSE UNCHANGED <<pending, fut, futValue, removals, setResults, sent, events>>
  /\ UNCHANGED <<registry, sid, token, resp, old, ws, closeReason, cleanupLog, rpc, kind, rsid,
                 rconn, timeoutSec, elapsed, outcome, returned, reported, clientVars, moreVars>>

\* the wide exploration: MaxTasks tasks, MaxRecv frames, none of them one that the
\* read path warns about
Next ==
  \/ /\ Started < MaxTasks
     /\ \E c \in Conns, p \in Paths, s \in PeerIds, t \in PeerTokens : Accept(c, p, s, t)
  \/ \E c \in Conns : BeginReplace(c)
  \/ \E c \in Conns : FinishReplace(c)
  \/ \E c \in Conns : AckDone(c)
  \/ \E c \in Conns : AckFail(c)
  \/ \E c \in Conns : PeerClose(c)
  \/ \E c \in Conns : Cleanup(c)

  \/ /\ Started < MaxTasks
     /\ \E r \in Reqs, k \in Kinds, s \in Ids, t \in 1..MaxTimeout : Issue(r, k, s, t)
  \/ \E r \in Reqs : SendDone(r)
  \/ \E r \in Reqs : SendFail(r)
  \/ Tick
  \/ \E r \in Reqs : TimerFire(r)
  \/ \E r \in Reqs : Wake(r)
  \/ \E r \in Reqs : FinishTimeout(r)
  \/ \E r \in Reqs : CancelCaller(r)
  \/ /\ recvCount < MaxRecv
     /\ \E c \in Conns, m \in Envelopes : RecvText(c, m)
Spec == Init /\ [][Next]_vars

\* the read loop explored in depth: MaxReadTasks tasks, MaxReadRecv frames of
\* every sort
NextRead ==
  \/ /\ Started < MaxReadTasks
     /\ \E c \in Conns, p \in Paths, s \in PeerIds, t \in PeerTokens : Accept(c, p, s, t)
  \/ \E c \in Conns : BeginReplace(c)
  \/ \E c \in Conns : FinishReplace(c)
  \/ \E c \in Conns : AckDone(c)
  \/ \E c \in Conns : AckFail(c)
  \/ \E c \in Conns : PeerClose(c)
  \/ \E c \in Conns : Cleanup(c)
  \/ /\ Started < MaxReadTasks
     /\ \E r \in Reqs, k \in Kinds, s \in Ids, t \in 1..MaxTimeout : Issue(r, k, s, t)
  \/ \E r \in Reqs : SendDone(r)
  \/ \E r \in Reqs : SendFail(r)
  \/ Tick
  \/ \E r \in Reqs : TimerFire(r)
  \/ \E r \in Reqs : Wake(r)
  \/ \E r \in Reqs : FinishTimeout(r)
  \/ \E r \in Reqs : CancelCaller(r)
  \/ /\ recvCount < MaxReadRecv
     /\ \E c \in Conns, m \in Msgs : RecvText(c, m)
SpecRead == Init /\ [][NextRead]_vars

\* the frames sampled while callers wait: a heartbeat, send_bind_confirm's response
\* with each replyTo and with none, a forwarded chat message
PendingMsgs ==
  {m \in Msgs :
     \/ m.type = "HEARTBEAT" /\ m.id = "h1"
     \/ m.type = "BIND_CONFIRM_RESPONSE"
     \/ m.type = "MESSAGE_FORWARD" /\ m.payload = "text"}

\* connections of identity A with send_bind_confirm callers waiting on them:
\* MaxPendTasks tasks, MaxPendRecv frames
NextPending ==
  \/ /\ Started < MaxPendTasks
     /\ \E c \in Conns : Accept(c, _path, "A", _auth["A"])
  \/ \E c \in Conns : BeginReplace(c)
  \/ \E c \in Conns : FinishReplace(c)
  \/ \E c \in Conns : AckDone(c)
  \/ \E c \in Conns : PeerClose(c)
  \/ \E c \in Conns : Cleanup(c)
  \/ /\ Started < MaxPendTasks
     /\ \E r \in Reqs : Issue(r, "BIND_CONFIRM", "A", MaxTimeout)
  \/ \E r \in Reqs : SendDone(r)
  \/ Tick
  \/ \E r \in Reqs : TimerFire(r)
  \/ \E r \in Reqs : Wake(r)
  \/ \E r \in Reqs : FinishTimeout(r)
  \/ /\ recvCount < MaxPendRecv
     /\ \E c \in Conns, m \in PendingMsgs : RecvText(c, m)
SpecPending == Init /\ [][NextPending]_vars

\* ------------------------------------- send_by_session and the event's send
\* the session ids a caller may pass: none, an identity (group session), an
\* identity and a player uuid joined by ":" (private session)
SessionIds == {"", "A", "B", "Z", "A:u1", "A:", ":u1", "B:u1"}

\* a player uuid as the senders see it: "NONE" stands for Python's None
PlayerUuids == {"NONE", "", "u1"}

\* the text of the chain's Plain components, joined
Texts == {"hi", " ", ""}

\* server_id, player_uuid = session_id.split(":", 1), or session_id, None
SessionServer(session_id) ==
  CASE session_id \in {"A:u1", "A:"} -> "A"
    [] session_id = "B:u1" -> "B"
    [] session_id = ":u1" -> ""
    [] OTHER -> session_id
SessionPlayer(session_id) ==
  CASE session_id \in {"A:u1", "B:u1", ":u1"} -> "u1"
    [] session_id = "A:" -> ""
    [] OTHER -> "NONE"

\* a target that is always the broadcast
Target_Broadcast(player_uuid) == [type |-> "BROADCAST", playerUuid |-> "NONE"]

\* msg["target"]: the player when `if player_uuid` holds, else the broadcast
Target(player_uuid) ==
  IF player_uuid \notin {"NONE", ""}
    THEN [type |-> "PLAYER", playerUuid |-> player_uuid]
    ELSE [type |-> "BROADCAST", playerUuid |-> "NONE"]

\* the envelope both senders build
MessageIncoming(id, text, player_uuid) ==
  [type |-> "MESSAGE_INCOMING", id |-> id, payload |-> text, target |-> Target(player_uuid)]

\* conn = get_connection(server_id); text = "".join(...).strip(); nothing is sent
\* without a connection or without text; else send_json(msg), which raises on a
\* transport that is no longer open
SendIncoming(server_id, player_uuid, text, id) ==
  /\ bcastCount' = bcastCount + 1
  /\ bcastCall' = [server_id |-> server_id, player_uuid |-> player_uuid, text |-> text]
  /\ IF get_connection(registry, server_id) = None \/ strip(text) = ""
       THEN /\ bcastResult' = "skipped"
            /\ UNCHANGED sent
       ELSE IF ws[get_connection(registry, server_id)] = "open"
         THEN /\ sent' = [sent EXCEPT ![get_connection(registry, server_id)] =
                             Append(@, MessageIncoming(id, strip(text), player_uuid))]
              /\ bcastResult' = "sent"
         ELSE /\ bcastResult' = "raised"
              /\ UNCHANGED sent
  /\ UNCHANGED <<registry, connVars, pending, reqVars, recvVars, clientVars, instVars, lockVars>>

\* send_by_session(session, message_chain): returns at once without a session id
send_by_session(session_id, text) ==
  IF session_id = ""
    THEN /\ bcastCount' = bcastCount + 1
         /\ bcastResult' = "skipped"
         /\ bcastCall' = [server_id |-> "", player_uuid |-> "NONE", text |-> text]
         /\ UNCHANGED <<gwVars, clientVars, instVars, lockVars>>
    ELSE SendIncoming(SessionServer(session_id), SessionPlayer(session_id), text, "uuid")

\* MinecraftGatewayEvent.send(message) of an event of identity server_id
send(server_id, player_uuid, text) == SendIncoming(server_id, player_uuid, text, "0")

\* connections, request callers and senders of messages side by side: MaxSendTasks
\* tasks, MaxBcast sender calls
NextSend ==
  \/ /\ Started < MaxSendTasks
     /\ \E c \in Conns, s \in Ids : Accept(c, _path, s, _auth[s])
  \/ \E c \in Conns : BeginReplace(c)
  \/ \E c \in Conns : FinishReplace(c)
  \/ \E c \in Conns : AckDone(c)
  \/ \E c \in Conns : AckFail(c)
  \/ \E c \in Conns : PeerClose(c)
  \/ \E c \in Conns : Cleanup(c)
  \/ /\ Started < MaxSendTasks
     /\ \E r \in Reqs, s \in Ids : Issue(r, "BIND_CONFIRM", s, MaxTimeout)
  \/ \E r \in Reqs : SendDone(r)
  \/ \E r \in Reqs : SendFail(r)
  \/ /\ bcastCount < MaxBcast
     /\ \E session_id \in SessionIds, text \in Texts : send_by_session(session_id, text)
  \/ /\ bcastCount < MaxBcast
     /\ \E s \in Ids, u \in PlayerUuids, text \in Texts : send(s, u, text)
SpecSend == Init /\ [][NextSend]_vars

\* ------------------------------------------------- the plugin instances
\* MinecraftAdapter(context, config): the host creates an instance; the config
\* fixes its status_check_interval, the client is built stopped
Create(i, interval) ==
  /\ ipos[i] = "absent"
  /\ \A j \in Instances : j < i => ipos[j] # "absent"
  /\ ipos' = [ipos EXCEPT ![i] = "idle"]
  /\ status_check_interval' = [status_check_interval EXCEPT ![i] = interval]
  /\ UNCHANGED <<_instance_running, ws_running, status_task, start_skipped>>
  /\ UNCHANGED <<gwVars, clientVars, bcastVars, lockVars>>

\* ws_client.start() of instance i: returns at once when the client is running,
\* else sets running and creates the connect task; it never suspends
ws_client_start(run, i) == [run EXCEPT ![i] = TRUE]


\* _safe_start of instance i, under _instance_lock: return when the class flag
\* is set; else set it, start the client and, with a positive
\* status_check_interval, create the status task. Nothing in it suspends: the
\* lock is free whenever it is asked for, start() and create_task do not wait.
\* The status task loops while its client is running, so only terminate ends it
_safe_start(i) ==
  /\ ipos[i] = "idle"
  /\ IF _instance_running
       THEN /\ start_skipped' = [start_skipped EXCEPT ![i] = TRUE]
            /\ UNCHANGED <<_instance_running, ws_running, status_task>>
       ELSE /\ _instance_running' = TRUE
            /\ ws_running' = ws_client_start(ws_running, i)
            /\ status_task' = IF status_check_interval[i] > 0
                                THEN [status_task EXCEPT ![i] = "running"]
                                ELSE status_task
            /\ UNCHANGED start_skipped
  /\ UNCHANGED <<ipos, status_check_interval>>
  /\ UNCHANGED <<gwVars, clientVars, bcastVars, lockVars>>

\* terminate of instance i, up to its first suspension: the class flag is reset
\* under the lock; a status task that is not done is cancelled and awaited;
\* without one, ws_client.stop() follows at once and clears running
terminate(i) ==
  /\ ipos[i] = "idle"
  /\ _instance_running' = FALSE
  /\ IF status_task[i] = "running"
       THEN /\ ipos' = [ipos EXCEPT ![i] = "awaiting_status_task"]
            /\ UNCHANGED ws_running
       ELSE /\ ws_running' = [ws_running EXCEPT ![i] = FALSE]
            /\ UNCHANGED ipos
  /\ UNCHANGED <<status_check_interval, status_task, start_skipped>>
  /\ UNCHANGED <<gwVars, clientVars, bcastVars, lockVars>>

\* terminate of instance i resumes: the cancelled status task is done,
\* ws_client.stop() clears running
TerminateStop(i) ==
  /\ ipos[i] = "awaiting_status_task"
  /\ status_task' = [status_task EXCEPT ![i] = "done"]
  /\ ws_running' = [ws_running EXCEPT ![i] = FALSE]
  /\ ipos' = [ipos EXCEPT ![i] = "idle"]
  /\ UNCHANGED <<_instance_running, status_check_interval, start_skipped>>
  /\ UNCHANGED <<gwVars, clientVars, bcastVars, lockVars>>

\* the host creates, starts and terminates plugin instances in any order
NextInst ==
  \/ \E i \in Instances, interval \in {0, 1} : Create(i, interval)
  \/ \E i \in Instances : _safe_start(i)
  \/ \E i \in Instances : terminate(i)
  \/ \E i \in Instances : TerminateStop(i)
SpecInst == Init /\ [][NextInst]_vars

\* ------------------------------------------------------ the registry lock
\* the coroutines that use the registry
TaskKinds == {"ws_handler", "send_bind_confirm", "send_by_session",
              "list_connected_server_ids", "run"}

\* the operations at which a coroutine suspends
AwaitOps == {"close", "send", "read", "wait_reply", "sleep"}

\* `async with _lock:` around one body: __aenter__ acquires, the body runs,
\* __aexit__ releases; `when` is the condition under which the caller makes the call
LockedCall(body, when) ==
  <<[op |-> "acquire", when |-> when], [op |-> body, when |-> when],
    [op |-> "release", when |-> when]>>

\* a set_connection that closes the transport under the lock before storing
SetConnection_Closing(when) ==
  <<[op |-> "acquire", when |-> when], [op |-> "close", when |-> when],
    [op |-> "set", when |-> when], [op |-> "release", when |-> when]>>

\* set_connection(server_id, conn): _by_server_id[server_id] = conn under the lock
SetConnection(when) == LockedCall("set", when)

\* set_connection(server_id, None): _by_server_id.pop(server_id, None) under the lock
PopConnection(when) == LockedCall("pop", when)

\* get_connection(server_id): _by_server_id.get(server_id) under the lock
GetConnection(when) == LockedCall("get", when)

\* list_server_ids(): list(_by_server_id.keys()) under the lock
ListServerIds(when) == LockedCall("keys", when)

\* the registry calls and suspension points of each coroutine, in program order
Program(k) ==
  CASE k = "ws_handler" ->
         GetConnection("always") \o <<[op |-> "close", when |-> "got"]>>
         \o SetConnection("always")
         \o <<[op |-> "send", when |-> "always"], [op |-> "read", when |-> "always"]>>
         \o GetConnection("always") \o PopConnection("got_self")
    [] k = "send_bind_confirm" ->
         GetConnection("always") \o ListServerIds("got_none")
         \o <<[op |-> "send", when |-> "got"], [op |-> "wait_reply", when |-> "got"]>>
    [] k = "send_by_session" ->
         GetConnection("always") \o <<[op |-> "send", when |-> "got"]>>
    [] k = "list_connected_server_ids" -> ListServerIds("always")
    [] OTHER -> <<[op |-> "sleep", when |-> "always"]>>

\* the identity the tasks of this run look up and register
LockId == "A"

\* task t has run its coroutine to the end
AtEnd(t) == tpc[t] > Len(Program(tkind[t]))

\* the operation task t is at
Op(t) == Program(tkind[t])[tpc[t]]

\* the condition of the branch the operation stands in
When(t, w) ==
  CASE w = "got" -> tgot[t] # None
    [] w = "got_none" -> tgot[t] = None
    [] w = "got_self" -> tgot[t] = t
    [] OTHER -> TRUE

\* task t is running and at an operation its branch reaches
Runs_Op(t) == cur = t /\ tst[t] = "running" /\ ~AtEnd(t) /\ When(t, Op(t).when)

\* what the lock steps leave alone
NoGateway == <<connVars, pending, sent, reqVars, recvVars>>

\* asyncio.create_task / a coroutine called by the host: the task is scheduled
Spawn(t, k) ==
  /\ tkind[t] = "none"
  /\ \A u \in LockTasks : u < t => tkind[u] # "none"
  /\ tkind' = [tkind EXCEPT ![t] = k]
  /\ tst' = [tst EXCEPT ![t] = "scheduled"]
  /\ UNCHANGED <<_lock, cur, tpc, tgot, registry, NoGateway, clientVars, bcastVars, instVars>>

\* the event loop, idle, runs a task that is ready: one scheduled, or one that
\* waited for the lock and finds it released
Run(t) ==
  /\ cur = None
  /\ IF tst[t] = "lock_wait" THEN _lock = None ELSE tst[t] = "scheduled"
  /\ cur' = t
  /\ tst' = [tst EXCEPT ![t] = "running"]
  /\ UNCHANGED <<_lock, tkind, tpc, tgot, registry, NoGateway, clientVars, bcastVars, instVars>>

\* the branch of the operation is not taken: the task goes on past it
Skip(t) ==
  /\ cur = t /\ tst[t] = "running" /\ ~AtEnd(t) /\ ~When(t, Op(t).when)
  /\ tpc' = [tpc EXCEPT ![t] = @ + 1]
  /\ UNCHANGED <<_lock, cur, tkind, tst, tgot, registry, NoGateway, clientVars, bcastVars, instVars>>

\* asyncio.Lock.acquire: a free lock is taken without suspending; a held lock
\* suspends the task until it is released
Acquire(t) ==
  /\ Runs_Op(t) /\ Op(t).op = "acquire"
  /\ IF _lock = None
       THEN /\ _lock' = t
            /\ tpc' = [tpc EXCEPT ![t] = @ + 1]
            /\ UNCHANGED <<cur, tst>>
       ELSE /\ tst' = [tst EXCEPT ![t] = "lock_wait"]
            /\ cur' = None
            /\ UNCHANGED <<_lock, tpc>>
  /\ UNCHANGED <<tkind, tgot, registry, NoGateway, clientVars, bcastVars, instVars>>

\* the body of a registry function: one dict operation, no await
DictOp(t) ==
  /\ Runs_Op(t) /\ Op(t).op \in {"get", "set", "pop", "keys"}
  /\ registry' = CASE Op(t).op = "set" -> set_connection(registry, LockId, t)
                    [] Op(t).op = "pop" -> set_connection(registry, LockId, None)
                    [] OTHER -> registry
  /\ tgot' = IF Op(t).op = "get"
               THEN [tgot EXCEPT ![t] = get_connection(registry, LockId)]
               ELSE tgot
  /\ tpc' = [tpc EXCEPT ![t] = @ + 1]
  /\ UNCHANGED <<_lock, cur, tkind, tst, NoGateway, clientVars, bcastVars, instVars>>

\* asyncio.Lock.release, from __aexit__
Release(t) ==
  /\ Runs_Op(t) /\ Op(t).op = "release"
  /\ _lock' = IF _lock = t THEN None ELSE _lock
  /\ tpc' = [tpc EXCEPT ![t] = @ + 1]
  /\ UNCHANGED <<cur, tkind, tst, tgot, registry, NoGateway, clientVars, bcastVars, instVars>>

\* an await that has to wait (close, send_json, the read loop, wait_for, sleep):
\* the task suspends and the event loop is free
Suspend(t) ==
  /\ Runs_Op(t) /\ Op(t).op \in AwaitOps
  /\ tst' = [tst EXCEPT ![t] = "awaiting"]
  /\ cur' = None
  /\ UNCHANGED <<_lock, tkind, tpc, tgot, registry, NoGateway, clientVars, bcastVars, instVars>>

\* what the task awaited is there: it is scheduled again, past the await; the
\* `while True` of run goes back to its sleep
Complete(t) ==
  /\ tst[t] = "awaiting"
  /\ tst' = [tst EXCEPT ![t] = "scheduled"]
  /\ tpc' = [tpc EXCEPT ![t] = IF Op(t).op = "sleep" THEN @ ELSE @ + 1]
  /\ UNCHANGED <<_lock, cur, tkind, tgot, registry, NoGateway, clientVars, bcastVars, instVars>>

\* the coroutine returns
Finish(t) ==
  /\ cur = t /\ tst[t] = "running" /\ AtEnd(t)
  /\ tst' = [tst EXCEPT ![t] = "done"]
  /\ cur' = None
  /\ UNCHANGED <<_lock, tkind, tpc, tgot, registry, NoGateway, clientVars, bcastVars, instVars>>

\* the event loop with the tasks that use the registry
NextLock ==
  \/ \E t \in LockTasks, k \in TaskKinds : Spawn(t, k)
  \/ \E t \in LockTasks : Run(t)
  \/ \E t \in LockTasks : Skip(t)
  \/ \E t \in LockTasks : Acquire(t)
  \/ \E t \in LockTasks : DictOp(t)
  \/ \E t \in LockTasks : Release(t)
  \/ \E t \in LockTasks : Suspend(t)
  \/ \E t \in LockTasks : Complete(t)
  \/ \E t \in LockTasks : Finish(t)
SpecLock == Init /\ [][NextLock]_vars

\* -------------------------------------------------------- outbound client
\* the application traffic send_chat / send_command / request_status hand to
\* send_message
AppKinds == {"chat", "command", "status_request"}

\* the protocol messages _handle_message handles itself
ControlTypes == {"auth_required", "auth_success", "auth_failed", "error"}

\* what the server may send as one frame: text that is no JSON, JSON that is no
\* object, a protocol message, a message of a type no handler is registered for,
\* or one of a registered type, whose handler returns or raises
ClientMsgs ==
  {[type |-> t, raises |-> FALSE] :
     t \in {"INVALID_JSON", "NOT_AN_OBJECT", "unregistered"} \cup ControlTypes}
  \cup {[type |-> t, raises |-> b] : t \in {"chat", "status_response"}, b \in BOOLEAN}

\* is_connected(): self.ws is not None and self.ws.close_code is None
is_connected == client_ws # None /\ tstate[client_ws] = "open"

\* register_handler(message_type, handler)
register_handler(t) ==
  /\ _message_handlers' = _message_handlers \cup {t}
  /\ UNCHANGED <<gwVars, moreVars, running, authenticated, client_ws, ws_task, auto_reconnect, lpc, lws,
                 tstate, csent, authOn, seenOn, delivered, clog, crecvCount, sendResult, sendCount,
                 lifeVars>>

\* start(): a client that is not running is set running and gets a new
\* _connect_loop task
start(l) ==
  /\ ~running
  /\ lpc[l] = "unborn"
  /\ \A k \in Loops : k < l => lpc[k] # "unborn"
  /\ running' = TRUE
  /\ ws_task' = l
  /\ lpc' = [lpc EXCEPT ![l] = "created"]
  /\ UNCHANGED <<gwVars, moreVars, authenticated, client_ws, auto_reconnect, lws, tstate, csent, authOn, seenOn,
                 delivered, clog, crecvCount, sendResult, sendCount, _message_handlers,
                 lifeVars>>

\* the end of one pass of _connect_loop: sleep reconnect_interval before the next
\* attempt, or break
AfterAttempt(run) == IF run /\ auto_reconnect THEN "sleeping" ELSE "ended"

\* a sleep that takes no time
SleepFor_None(next) == 0

\* the seconds the task sleeps before it is in position `next`
SleepFor(next) == IF next = "sleeping" THEN reconnect_interval ELSE 0

\* `while self.running`: dial, or leave the loop
WhileRunning(run) == IF run THEN "connecting" ELSE "ended"

\* the task can take its next step: it is not about to be cancelled
Runs(l) == ~lcancel[l]

\* `while self.running`, evaluated when the task first runs and when its sleep
\* has elapsed
LoopTop(l) ==
  /\ Runs(l)
  /\ lpc[l] = "created" \/ (lpc[l] = "sleeping" /\ sleepLeft[l] = 0)
  /\ lpc' = [lpc EXCEPT ![l] = WhileRunning(running)]
  /\ UNCHANGED <<gwVars, moreVars, running, authenticated, client_ws, ws_task, auto_reconnect, lws, tstate,
                 csent, authOn, seenOn, delivered, clog, crecvCount, sendResult, sendCount,
                 _message_handlers, lifeVars>>

\* websockets.connect returns transport w: self.ws = ws, self.authenticated =
\* False, and the task waits for the first frame
DialOk(l, w) ==
  /\ Runs(l)
  /\ lpc[l] = "connecting"
  /\ tstate[w] = "none"
  /\ \A v \in Dials : v < w => tstate[v] # "none"
  /\ tstate' = [tstate EXCEPT ![w] = "open"]
  /\ lws' = [lws EXCEPT ![l] = w]
  /\ client_ws' = w
  /\ authenticated' = FALSE
  /\ lpc' = [lpc EXCEPT ![l] = "reading"]
  /\ UNCHANGED <<gwVars, moreVars, running, ws_task, auto_reconnect, csent, authOn, seenOn, delivered, clog,
                 crecvCount, sendResult, sendCount, _message_handlers, lifeVars>>

\* websockets.connect raises: the except branch clears the flag and the transport
DialFail(l) ==
  /\ Runs(l)
  /\ lpc[l] = "connecting"
  /\ authenticated' = FALSE
  /\ client_ws' = None
  /\ lpc' = [lpc EXCEPT ![l] = AfterAttempt(running)]
  /\ sleepLeft' = [sleepLeft EXCEPT ![l] = SleepFor(lpc'[l])]
  /\ UNCHANGED <<gwVars, moreVars, running, ws_task, auto_reconnect, lws, tstate, csent, authOn, seenOn, delivered,
                 clog, crecvCount, sendResult, sendCount, _message_handlers, lcancel, spc, stask,
                 sws, recpc, recTimeout, recPolls, recDue, recResult, recFrom, recClosed>>

\* the server closes transport w cleanly ("closed"), or the transport fails
\* ("error")
ServerClose(w, how) ==
  /\ tstate[w] = "open"
  /\ tstate' = [tstate EXCEPT ![w] = how]
  /\ UNCHANGED <<gwVars, moreVars, running, authenticated, client_ws, ws_task, auto_reconnect, lpc, lws,
                 csent, authOn, seenOn, delivered, clog, crecvCount, sendResult, sendCount,
                 _message_handlers, lifeVars>>

\* `async for message in ws` ends: quietly after a clean close, with
\* ConnectionClosed after an error, whose except branch clears the flag and the
\* transport
ReadEnd(l) ==
  /\ Runs(l)
  /\ lpc[l] = "reading"
  /\ tstate[lws[l]] \in {"closed", "error"}
  /\ IF tstate[lws[l]] = "error"
       THEN authenticated' = FALSE /\ client_ws' = None
       ELSE UNCHANGED <<authenticated, client_ws>>
  /\ lpc' = [lpc EXCEPT ![l] = AfterAttempt(running)]
  /\ sleepLeft' = [sleepLeft EXCEPT ![l] = SleepFor(lpc'[l])]
  /\ UNCHANGED <<gwVars, moreVars, running, ws_task, auto_reconnect, lws, tstate, csent, authOn, seenOn, delivered,
                 clog, crecvCount, sendResult, sendCount, _message_handlers, lcancel, spc, stask,
                 sws, recpc, recTimeout, recPolls, recDue, recResult, recFrom, recClosed>>

\* _send_auth(): the credential goes out on self.ws when is_connected()
_send_auth(q) ==
  IF is_connected THEN [q EXCEPT ![client_ws] = Append(@, "auth")] ELSE q

\* a dispatch that does not put the protocol messages aside
Dispatched_Unfiltered(m) == m.type \in _message_handlers

\* the message reaches `if msg_type in self._message_handlers`: each branch of a
\* protocol message returns before it
Dispatched(m) == m.type \notin ControlTypes /\ m.type \in _message_handlers

\* the error a frame makes _handle_message log: json.JSONDecodeError, an exception
\* of data.get or of the handler, the auth_failed and error branches
LoggedError(m) ==
  IF m.type = "INVALID_JSON" THEN "parse error"
  ELSE IF m.type = "NOT_AN_OBJECT" \/ (Dispatched(m) /\ m.raises) THEN "handle error"
  ELSE IF m.type = "auth_failed" THEN "auth failed"
  ELSE IF m.type = "error" THEN "server error"
  ELSE "none"

\* a read loop that ends on a frame it logs an error for
StaysReading_UnlessError(m) == LoggedError(m) = "none"

\* _handle_message catches every exception: the loop goes on reading
StaysReading(m) == TRUE

\* a failed authentication that leaves the flag set
RunningAfter_Kept(m, run) == run

\* self.running after the frame: auth_failed clears it
RunningAfter(m, run) == IF m.type = "auth_failed" THEN FALSE ELSE run

\* one frame read by `async for message in ws` of loop l and handled by
\* _handle_message
_handle_message(l, m) ==
  /\ Runs(l)
  /\ lpc[l] = "reading"
  /\ tstate[lws[l]] = "open"
  /\ crecvCount' = crecvCount + 1
  /\ clog' = IF LoggedError(m) # "none" THEN [what |-> LoggedError(m), at |-> crecvCount']
             ELSE clog
  /\ lpc' = [lpc EXCEPT ![l] = IF StaysReading(m) THEN "reading" ELSE "ended"]
  /\ csent' = IF m.type = "auth_required" THEN _send_auth(csent) ELSE csent
  /\ authenticated' = IF m.type = "auth_success" THEN TRUE
                      ELSE IF m.type = "auth_failed" THEN FALSE
                      ELSE authenticated
  /\ authOn' = IF m.type = "auth_success" THEN authOn \cup {lws[l]} ELSE authOn
  /\ seenOn' = IF m.type \in {"auth_required", "auth_failed"}
                 THEN [seenOn EXCEPT ![lws[l]] = @ \cup {m.type}]
                 ELSE seenOn
  /\ running' = RunningAfter(m, running)
  /\ delivered' = IF Dispatched(m) THEN Append(delivered, m.type) ELSE delivered
  /\ UNCHANGED <<gwVars, moreVars, client_ws, ws_task, auto_reconnect, lws, tstate, sendResult, sendCount,
                 _message_handlers, lifeVars>>

\* send_message(data) with application traffic of kind k: False when not
\* connected or not authenticated, else the data is sent on self.ws
send_message(k) ==
  /\ sendCount' = sendCount + 1
  /\ IF is_connected /\ authenticated
       THEN /\ csent' = [csent EXCEPT ![client_ws] = Append(@, k)]
            /\ sendResult' = "true"
       ELSE /\ sendResult' = "false"
            /\ UNCHANGED csent
  /\ UNCHANGED <<gwVars, moreVars, running, authenticated, client_ws, ws_task, auto_reconnect, lpc, lws,
                 tstate, authOn, seenOn, delivered, clog, crecvCount, _message_handlers, lifeVars>>

\* ------------------------------------------------------------ the clock
\* a sleep that has elapsed and whose task has not run yet
SleepDue == \/ \E l \in Loops : lpc[l] = "sleeping" /\ sleepLeft[l] = 0 /\ Runs(l)
            \/ recpc = "polling" /\ recDue

\* a sleep that is running
Sleeping == \/ \E l \in Loops : lpc[l] = "sleeping" /\ sleepLeft[l] > 0
            \/ recpc = "polling" /\ ~recDue

\* one second passes: no task whose sleep has elapsed is kept waiting
ClientTick ==
  /\ Sleeping
  /\ ~SleepDue
  /\ sleepLeft' = [l \in Loops |-> IF lpc[l] = "sleeping" /\ sleepLeft[l] > 0
                                     THEN sleepLeft[l] - 1 ELSE sleepLeft[l]]
  /\ recDue' = (recpc = "polling")
  /\ UNCHANGED <<gwVars, moreVars, running, authenticated, client_ws, ws_task, auto_reconnect, lpc, lws,
                 tstate, csent, authOn, seenOn, delivered, clog, crecvCount, sendResult, sendCount,
                 _message_handlers, lcancel, spc, stask, sws, recpc, recTimeout, recPolls,
                 recResult, recFrom, recClosed>>

\* ------------------------------------------------------------------ stop
\* task.done()
Done(l) == lpc[l] \in {"ended", "cancelled"}

\* `await ws.close()` has returned: an open transport is closed, one that is
\* closed already stays as it is
Closed(ts, w) == IF ts[w] = "open" THEN [ts EXCEPT ![w] = "closed"] ELSE ts

\* CancelledError is raised in the task where it is suspended; `async with` closes
\* the transport the task was reading on its way out; no except branch of the loop
\* catches it
LoopCancelled(l) ==
  /\ lcancel[l]
  /\ ~Done(l)
  /\ lpc' = [lpc EXCEPT ![l] = "cancelled"]
  /\ lcancel' = [lcancel EXCEPT ![l] = FALSE]
  /\ sleepLeft' = [sleepLeft EXCEPT ![l] = 0]
  /\ tstate' = IF lpc[l] = "reading" THEN Closed(tstate, lws[l]) ELSE tstate
  /\ UNCHANGED <<gwVars, moreVars, running, authenticated, client_ws, ws_task, auto_reconnect, lws, csent,
                 authOn, seenOn, delivered, clog, crecvCount, sendResult, sendCount, _message_handlers,
                 spc, stask, sws, recpc, recTimeout, recPolls, recDue, recResult, recFrom,
                 recClosed>>

\* stop() from `if self.is_connected()` on: it suspends in `await self.ws.close()`,
\* or clears self.ws and self.authenticated and returns
StopTail ==
  IF is_connected
    THEN /\ spc' = "closing"
         /\ sws' = client_ws
         /\ UNCHANGED <<client_ws, authenticated>>
    ELSE /\ spc' = "returned"
         /\ client_ws' = None
         /\ authenticated' = FALSE
         /\ UNCHANGED sws

\* stop() is called: self.running = False; the task in self.ws_task, unless done,
\* is cancelled and awaited
StopBegin ==
  /\ spc = "idle"
  /\ running' = FALSE
  /\ IF ws_task # None /\ ~Done(ws_task)
       THEN /\ lcancel' = [lcancel EXCEPT ![ws_task] = TRUE]
            /\ stask' = ws_task
            /\ spc' = "awaiting"
            /\ UNCHANGED <<client_ws, authenticated, sws>>
       ELSE /\ StopTail
            /\ UNCHANGED <<lcancel, stask>>
  /\ UNCHANGED <<gwVars, moreVars, ws_task, auto_reconnect, lpc, lws, tstate, csent, authOn, seenOn, delivered,
                 clog, crecvCount, sendResult, sendCount, _message_handlers, sleepLeft, recpc,
                 recTimeout, recPolls, recDue, recResult, recFrom, recClosed>>

\* `await self.ws_task` returns: the cancelled task is done
StopTaskDone ==
  /\ spc = "awaiting"
  /\ Done(stask)
  /\ StopTail
  /\ UNCHANGED <<gwVars, moreVars, running, ws_task, auto_reconnect, lpc, lws, tstate, csent, authOn, seenOn,
                 delivered, clog, crecvCount, sendResult, sendCount, _message_handlers, sleepLeft,
                 lcancel, stask, recpc, recTimeout, recPolls, recDue, recResult, recFrom,
                 recClosed>>

\* `await self.ws.close()` of stop() returns; self.ws = None, self.authenticated =
\* False
StopClosed ==
  /\ spc = "closing"
  /\ tstate' = Closed(tstate, sws)
  /\ client_ws' = None
  /\ authenticated' = FALSE
  /\ spc' = "returned"
  /\ UNCHANGED <<gwVars, moreVars, running, ws_task, auto_reconnect, lpc, lws, csent, authOn, seenOn, delivered,
                 clog, crecvCount, sendResult, sendCount, _message_handlers, sleepLeft, lcancel,
                 stask, sws, recpc, recTimeout, recPolls, recDue, recResult, recFrom, recClosed>>

\* ------------------------------------------------------------- reconnect
\* the transports opened so far
Opened == Cardinality({w \in Dials : tstate[w] # "none"})

\* the report after the last poll: connected but not authenticated, or failed
FinalReport == IF is_connected /\ ~authenticated THEN "unauthenticated" ELSE "failed"

\* reconnect(timeout) is called: when connected it suspends in `await
\* self.ws.close()`, else in asyncio.sleep(0.5)
ReconnectBegin(t) ==
  /\ recpc = "idle"
  /\ recTimeout' = t
  /\ recFrom' = Opened
  /\ IF is_connected
       THEN recpc' = "closing" /\ recClosed' = client_ws
       ELSE recpc' = "settling" /\ UNCHANGED recClosed
  /\ UNCHANGED <<gwVars, moreVars, running, authenticated, client_ws, ws_task, auto_reconnect, lpc, lws,
                 tstate, csent, authOn, seenOn, delivered, clog, crecvCount, sendResult, sendCount,
                 _message_handlers, sleepLeft, lcancel, spc, stask, sws, recPolls, recDue,
                 recResult>>

\* `await self.ws.close()` of reconnect() returns
ReconnectClosed ==
  /\ recpc = "closing"
  /\ tstate' = Closed(tstate, recClosed)
  /\ recpc' = "settling"
  /\ UNCHANGED <<gwVars, moreVars, running, authenticated, client_ws, ws_task, auto_reconnect, lpc, lws,
                 csent, authOn, seenOn, delivered, clog, crecvCount, sendResult, sendCount,
                 _message_handlers, sleepLeft, lcancel, spc, stask, sws, recTimeout, recPolls,
                 recDue, recResult, recFrom, recClosed>>

\* asyncio.sleep(0.5) has elapsed: the poll loop starts its first sleep, or, with
\* no time to poll, reconnect reports
ReconnectSettled ==
  /\ recpc = "settling"
  /\ IF recTimeout > 0
       THEN /\ recpc' = "polling"
            /\ recDue' = FALSE
            /\ UNCHANGED recResult
       ELSE /\ recpc' = "done"
            /\ recResult' = FinalReport
            /\ UNCHANGED recDue
  /\ UNCHANGED <<gwVars, moreVars, running, authenticated, client_ws, ws_task, auto_reconnect, lpc, lws,
                 tstate, csent, authOn, seenOn, delivered, clog, crecvCount, sendResult, sendCount,
                 _message_handlers, sleepLeft, lcancel, spc, stask, sws, recTimeout, recPolls,
                 recFrom, recClosed>>

\* a poll that takes a connection for an authenticated one
PollSucceeds_Connected == is_connected

\* if self.is_connected() and self.authenticated
PollSucceeds == is_connected /\ authenticated

\* asyncio.sleep(1) has elapsed: one poll; after the last one reconnect reports
ReconnectPoll ==
  /\ recpc = "polling"
  /\ recDue
  /\ recPolls' = recPolls + 1
  /\ IF PollSucceeds
       THEN recResult' = "success" /\ recpc' = "done" /\ UNCHANGED recDue
       ELSE IF recPolls' >= recTimeout
         THEN recResult' = FinalReport /\ recpc' = "done" /\ UNCHANGED recDue
         ELSE recDue' = FALSE /\ UNCHANGED <<recResult, recpc>>
  /\ UNCHANGED <<gwVars, moreVars, running, authenticated, client_ws, ws_task, auto_reconnect, lpc, lws,
                 tstate, csent, authOn, seenOn, delivered, clog, crecvCount, sendResult, sendCount,
                 _message_handlers, sleepLeft, lcancel, spc, stask, sws, recTimeout, recFrom,
                 recClosed>>

\* ---------------------------------------------------- client specifications
\* the client's connect loops, read loop and send_message
NextClient ==
  \/ \E l \in Loops : start(l)
  \/ \E l \in Loops : LoopTop(l)
  \/ \E l \in Loops, w \in Dials : DialOk(l, w)
  \/ \E l \in Loops : DialFail(l)
  \/ \E w \in Dials, how \in {"closed", "error"} : ServerClose(w, how)
  \/ \E l \in Loops : ReadEnd(l)
  \/ ClientTick
  \/ /\ crecvCount < MaxClientRecv
     /\ \E l \in Loops, m \in ClientMsgs : _handle_message(l, m)
  \/ /\ sendCount < MaxSends
     /\ \E k \in AppKinds : send_message(k)

\* the client under either setting of auto_reconnect
InitClientRun == InitGateway /\ InitClient /\ InitMore /\ auto_reconnect \in BOOLEAN
SpecClient == InitClientRun /\ [][NextClient]_vars

\* the frames sampled over a run of start / stop / reconnect
LifeMsgs == {m \in ClientMsgs : m.type \in {"auth_success", "auth_failed"}}

\* start, stop and reconnect called at any moment, once each but for start
NextLife ==
  \/ \E l \in Loops : start(l)
  \/ \E l \in Loops : LoopTop(l)
  \/ \E l \in Loops, w \in Dials : DialOk(l, w)
  \/ \E l \in Loops : DialFail(l)
  \/ \E w \in Dials, how \in {"closed", "error"} : ServerClose(w, how)
  \/ \E l \in Loops : ReadEnd(l)
  \/ ClientTick
  \/ \E l \in Loops : LoopCancelled(l)
  \/ StopBegin
  \/ StopTaskDone
  \/ StopClosed
  \/ \E t \in 0..MaxRecTimeout : ReconnectBegin(t)
  \/ ReconnectClosed
  \/ ReconnectSettled
  \/ ReconnectPoll
  \/ /\ crecvCount < MaxLifeRecv
     /\ \E l \in Loops, m \in LifeMsgs : _handle_message(l, m)
SpecLife == InitClientRun /\ [][NextLife]_vars

\* reconnect() called at any moment on a client with one connect loop; every task
\* that can take a step takes it in the end, a dial returns or fails, and the clock
\* goes on; the server closes a transport or sends a frame when it likes
NextReconnect ==
  \/ start(1)
  \/ LoopTop(1)
  \/ \E w \in Dials : DialOk(1, w)
  \/ DialFail(1)
  \/ \E w \in Dials, how \in {"closed", "error"} : ServerClose(w, how)
  \/ ReadEnd(1)
  \/ ClientTick
  \/ \E t \in 0..MaxRecTimeout : ReconnectBegin(t)
  \/ ReconnectClosed
  \/ ReconnectSettled
  \/ ReconnectPoll
  \/ /\ crecvCount < MaxLifeRecv
     /\ \E m \in LifeMsgs : _handle_message(1, m)
SpecReconnect ==
  /\ InitClientRun /\ [][NextReconnect]_vars
  /\ WF_vars(ClientTick) /\ WF_vars(LoopTop(1))
  /\ WF_vars(DialFail(1) \/ \E w \in Dials : DialOk(1, w)) /\ WF_vars(ReadEnd(1))
  /\ WF_vars(ReconnectClosed) /\ WF_vars(ReconnectSettled) /\ WF_vars(ReconnectPoll)

\* handlers registered under protocol message types before start() is called, as
\* main.py registers its own, and the frames of one connection
NextHandlers ==
  \/ /\ Cardinality(_message_handlers) < Cardinality(_register_ws_handlers) + MaxRegs
     /\ ws_task = None
     /\ \E t \in ControlTypes : register_handler(t)
  \/ start(1)
  \/ LoopTop(1)
  \/ DialOk(1, 1)
  \/ ServerClose(1, "closed")
  \/ ReadEnd(1)
  \/ /\ crecvCount < MaxClientRecv
     /\ \E m \in ClientMsgs : _handle_message(1, m)
SpecHandlers == Init /\ [][NextHandlers]_vars

\* ------------------------------------------------ both roles in one process
\* the frames sampled when both read loops run: one of each sort _handle_text
\* tells apart
SampleMsgs ==
  {m \in Msgs :
     \/ m.type \in {"INVALID_JSON", "NOT_AN_OBJECT"}
     \/ m.type = "HEARTBEAT" /\ m.id = "h1"
     \/ m.type = "BIND_CONFIRM_RESPONSE" /\ m.replyTo = 1
     \/ m.type = "MESSAGE_FORWARD" /\ m.payload \in {"text", "bad"}}

\* the frames sampled for the client: malformed ones, auth_success, and a
\* registered type whose handler returns or raises
SampleClientMsgs ==
  {m \in ClientMsgs : m.type \in {"INVALID_JSON", "NOT_AN_OBJECT", "auth_success", "chat"}}

\* the gateway with connections of identity A and send_bind_confirm callers, and
\* the client with one _connect_loop task and one transport, in any interleaving
NextBoth ==
  \/ /\ Started < MaxReadTasks
     /\ \E c \in Conns : Accept(c, _path, "A", _auth["A"])
  \/ \E c \in Conns : BeginReplace(c)
  \/ \E c \in Conns : FinishReplace(c)
  \/ \E c \in Conns : AckDone(c)
  \/ \E c \in Conns : PeerClose(c)
  \/ \E c \in Conns : Cleanup(c)
  \/ /\ Started < MaxReadTasks
     /\ \E r \in Reqs : Issue(r, "BIND_CONFIRM", "A", MaxTimeout)
  \/ \E r \in Reqs : SendDone(r)
  \/ Tick
  \/ \E r \in Reqs : TimerFire(r)
  \/ \E r \in Reqs : Wake(r)
  \/ \E r \in Reqs : FinishTimeout(r)
  \/ /\ recvCount < MaxBothRecv
     /\ \E c \in Conns, m \in SampleMsgs : RecvText(c, m)
  \/ start(1)
  \/ LoopTop(1)
  \/ DialOk(1, 1)
  \/ ServerClose(1, "closed")
  \/ ReadEnd(1)
  \/ ClientTick
  \/ /\ crecvCount < MaxBothRecv
     /\ \E m \in SampleClientMsgs : _handle_message(1, m)
SpecBoth == Init /\ [][NextBoth]_vars

\* ------------------------------------------------------------------ claims
\* the step in which ws_handler c registers its connection
Registers(c) == hpc[c] \in {"prepared", "closing"} /\ hpc'[c] \in {"acking", "crashed"}

\* the connection ws_handler c found in the registry before it registers
OldOf(c) == IF hpc[c] = "closing" THEN old[c] ELSE get_connection(registry, sid[c])

\* the step in which caller task r looks its server_id up
LooksUp(r) == rpc[r] = "idle" /\ rpc'[r] # "idle"

\* the step in which ws_handler c runs its finally block
CleansUp(c) == hpc[c] = "reading" /\ hpc'[c] = "done"

\* the dict holds one item per key
C1_AtMostOnePerIdentity == \A p \in registry, q \in registry : p[1] = q[1] => p = q
\* a lookup returns the slot as the registry holds it in that step
C1_LookupSeesWholeSlot ==
  \A r \in Reqs : LooksUp(r) =>
    /\ rconn'[r] \in {DictGet(registry, rsid'[r]), DictGet(registry', rsid'[r])}
    /\ rconn'[r] # None => <<rsid'[r], rconn'[r]>> \in registry
    /\ rconn'[r] = None => /\ rsid'[r] \notin {p[1] : p \in registry}
                           /\ reported'[r] = {p[1] : p \in registry}
\* C1: the registry holds at most one connection per identity in every reachable
\* state, and a lookup made in a step returns the connection the registry holds
\* for that identity before the step or after it (list_server_ids: the keys), never
\* another value.
C1_RegistryAtomic == [](C1_AtMostOnePerIdentity) /\ [][C1_LookupSeesWholeSlot]_vars

\* a caller holds the connection it looked up while the registry already holds
\* the one that replaced it
C1_Witness ==
  \E r \in Reqs : rconn[r] # None /\ DictGet(registry, rsid[r]) \notin {None, rconn[r]}

\* C2 (as claimed): when a handler registers its connection for an identity the
\* registry already held a connection for, the old transport is closed with the
\* reason "replaced" and the registry entry is exactly the new connection.
C2_Claimed ==
  [][\A c \in Conns :
       (Registers(c) /\ hpc'[c] = "acking" /\ OldOf(c) # None) =>
          /\ ws'[OldOf(c)] = "closed"
          /\ closeReason'[OldOf(c)] = "replaced"
          /\ get_connection(registry', sid[c]) = c]_vars

\* C2 (amended): the old transport is closed, with the reason "replaced" when it
\* was still open as the new handler looked it up (a transport already closed
\* keeps the reason of its earlier close), and the registry entry is exactly the
\* new connection.
C2_ReplacedAndOverwritten ==
  [][\A c \in Conns :
       (Registers(c) /\ hpc'[c] = "acking" /\ OldOf(c) # None) =>
          /\ ws'[OldOf(c)] = "closed"
          /\ hpc[c] = "closing" => closeReason'[OldOf(c)] = "replaced"
          /\ hpc[c] = "prepared" => closeReason'[OldOf(c)] = closeReason[OldOf(c)]
          /\ get_connection(registry', sid[c]) = c]_vars

\* a new connection is registered and acknowledged, the one it replaced is
\* closed with "replaced"
C2_Witness ==
  \E c \in Conns, o \in Conns :
    /\ o # c /\ sid[o] = sid[c] /\ hpc[c] = "acking"
    /\ closeReason[o] = "replaced" /\ ws[o] = "closed"
    /\ get_connection(registry, sid[c]) = c

\* C3: the cleanup of connection c never removes another connection from the
\* registry: it changes the registry only when the slot of c's identity holds c,
\* and then it removes exactly that slot.
C3_StaleDisconnectGuard ==
  [][\A c \in Conns : CleansUp(c) =>
       IF get_connection(registry, sid[c]) = c
         THEN registry' = registry \ {<<sid[c], c>>}
         ELSE registry' = registry]_vars

\* an evicted connection's cleanup ran while the registry held the newer
\* connection, which is still registered
C3_Witness ==
  \E c \in Conns, n \in Conns :
    /\ c # n /\ sid[c] = sid[n]
    /\ hpc[c] = "done" /\ cleanupLog[c] = "replaced"
    /\ get_connection(registry, sid[n]) = n

\* C4 (as claimed): once a connection is torn down (its handler's finally block
\* has run), no request issued on it is still pending: each was resolved at
\* teardown.
C4_Claimed ==
  \A c \in Conns : hpc[c] = "done" =>
    \A r \in Reqs : rconn[r] = c => ~(rpc[r] = "waiting" /\ fut[r] = "pending")

\* C5: a request for an identity the registry holds no connection for ends in the
\* same step with NotConnected, reporting the identities connected at that moment;
\* it creates no pending entry, sends no envelope and never suspends.
C5_NotConnectedImmediate ==
  [][\A r \in Reqs :
       (LooksUp(r) /\ get_connection(registry, rsid'[r]) = None) =>
          /\ rpc'[r] = "done"
          /\ outcome'[r] = "NotConnected"
          /\ reported'[r] = DictKeys(registry)
          /\ fut'[r] = "none"
          /\ pending' = pending
          /\ sent' = sent]_vars

\* query_player_by_external_account failed with NotConnected while another
\* identity was connected
C5_Witness ==
  \E r \in Reqs :
    /\ kind[r] = "EXTERNAL_ACCOUNT_QUERY" /\ outcome[r] = "NotConnected"
    /\ reported[r] # {} /\ rsid[r] \notin reported[r]

\* the response envelope that matches request r: its kind's response type, replyTo
\* the request id
MatchingReply(r, p) ==
  [type |-> ResponseType(kind[r]), id |-> "m", replyTo |-> r, payload |-> p]

\* C6 (as claimed): for every request function, when the matching response
\* envelope arrives on the connection while the request is pending there, the
\* dispatch pops the entry and fulfils the future with the payload.
C6_Claimed ==
  [][\A c \in Conns, r \in Reqs, p \in Payloads :
       (RecvText(c, MatchingReply(r, p)) /\ r \in pending[c] /\ fut[r] = "pending") =>
          /\ r \notin pending'[c]
          /\ fut'[r] = "result"
          /\ futValue'[r] = p]_vars

\* C7: a call that ended with Timeout ended no sooner than timeout_sec after its
\* wait began, and no connection's pending table holds its request id.
C7_TimeoutAfterDeadline ==
  \A r \in Reqs : outcome[r] = "Timeout" =>
    /\ elapsed[r] >= timeoutSec[r]
    /\ \A c \in Conns : r \notin pending[c]

\* a call ended with Timeout on a connection that is still open and registered
C7_Witness ==
  \E r \in Reqs :
    /\ outcome[r] = "Timeout" /\ ws[rconn[r]] = "open"
    /\ get_connection(registry, rsid[r]) = rconn[r]

\* C8 (as claimed): once a call that created a pending entry has ended, the entry
\* is gone from the table and was removed exactly once.
C8_Claimed ==
  \A r \in Reqs : (rpc[r] = "done" /\ fut[r] # "none") =>
    /\ \A c \in Conns : r \notin pending[c]
    /\ removals[r] = 1

\* C9 (as claimed): a call that ended by cancellation left no entry behind.
C9_Claimed ==
  \A r \in Reqs : outcome[r] = "Cancelled" => \A c \in Conns : r \notin pending[c]

\* the outcome a caller observed agrees with its future
C10_OutcomeConsistent ==
  \A r \in Reqs :
    /\ setResults[r] <= 1
    /\ fut[r] = "result" <=> setResults[r] = 1
    /\ outcome[r] = "Reply" => fut[r] = "result" /\ returned[r] = futValue[r]
    /\ outcome[r] = "Timeout" => fut[r] = "cancelled"
\* an observed outcome and a done future never change
C10_TerminalStable ==
  \A r \in Reqs :
    /\ outcome[r] # "none" => outcome'[r] = outcome[r]
    /\ fut[r] \in {"result", "cancelled"} => fut'[r] = fut[r] /\ futValue'[r] = futValue[r]
\* C10: a request has one outcome only: an outcome, once observed, never changes;
\* a future that is done (fulfilled, or cancelled by the timeout) never changes
\* again; set_result runs at most once; a Reply outcome comes with a fulfilled
\* future and its value, a Timeout outcome with a future that was never fulfilled.
C10_ExactlyOneOutcome == [](C10_OutcomeConsistent) /\ [][C10_TerminalStable]_vars

\* a reply arrived for a request after its timeout had cancelled the future and
\* before the caller ran its finally: the dispatch popped the entry, the future
\* stayed cancelled
C10_Witness ==
  \E r \in Reqs :
    /\ rpc[r] = "timeoutwait" /\ fut[r] = "cancelled"
    /\ removals[r] = 1 /\ r \notin pending[rconn[r]]

\* the step in which a reply fulfils the future of request q
Fulfils(q) == fut[q] = "pending" /\ fut'[q] = "result"

\* a request that ended with Timeout was never fulfilled and ended no sooner than
\* its own deadline
C11_TimeoutIsOwn ==
  \A r \in Reqs : outcome[r] = "Timeout" =>
    setResults[r] = 0 /\ elapsed[r] >= timeoutSec[r]
\* a frame that carries replyTo q touches no other request
C11_ReplyTouchesOnlyItsRequest ==
  recvCount' # recvCount =>
   \A c \in Conns, q \in Reqs, m \in Msgs :
    (m.replyTo = q /\ RecvText(c, m)) =>
      /\ (kind[q] = "BIND_CONFIRM" /\ m.type = ResponseType(kind[q]) /\ q \in pending[c]
            /\ fut[q] = "pending") => (Fulfils(q) /\ q \notin pending'[c])
      /\ \A r \in Reqs \ {q} :
           /\ fut'[r] = fut[r] /\ futValue'[r] = futValue[r]
           /\ rpc'[r] = rpc[r] /\ outcome'[r] = outcome[r]
           /\ elapsed'[r] = elapsed[r] /\ timeoutSec'[r] = timeoutSec[r]
           /\ \A d \in Conns : r \in pending'[d] <=> r \in pending[d]
\* C11: two requests pending on one connection resolve independently: a reply
\* whose replyTo is one request's id fulfils that request only (send_bind_confirm's
\* response fulfils it and pops its entry); every other request keeps its future,
\* its entry and its running timer, and a request that ends with Timeout was never
\* fulfilled and ended at its own deadline.
C11_IndependentRequests ==
  [](C11_TimeoutIsOwn) /\ [][C11_ReplyTouchesOnlyItsRequest]_vars

\* the second of two requests waiting on one connection has just been fulfilled,
\* the first is still pending with its entry in the table
C11_Witness ==
  \E c \in Conns, r1 \in Reqs, r2 \in Reqs :
    /\ r1 < r2 /\ rconn[r1] = c /\ rconn[r2] = c
    /\ rpc[r1] = "waiting" /\ fut[r1] = "pending" /\ r1 \in pending[c]
    /\ rpc[r2] = "waiting" /\ fut[r2] = "result" /\ r2 \notin pending[c]

\* the step is one of ws_handler c: its position moves, or its transport closes
HandlerStep(c) == hpc'[c] # hpc[c] \/ ws'[c] # ws[c]

\* C12: for identities A # B, a step that accepts, replaces, closes or cleans up
\* a connection of A leaves B's registry entry, the pending tables of B's
\* connections and the futures of the requests issued on them unchanged.
C12_OtherIdentityUntouched ==
  [][\A c \in Conns : HandlerStep(c) =>
       /\ \A b \in Ids \ {sid'[c]} :
            get_connection(registry', b) = get_connection(registry, b)
       /\ \A d \in Conns : (d # c /\ sid[d] # sid'[c]) =>
            /\ pending'[d] = pending[d]
            /\ ws'[d] = ws[d]
            /\ \A r \in Reqs : rconn[r] = d => fut'[r] = fut[r]]_vars

\* the connection of one identity was closed and cleaned up while a request is
\* waiting on the registered connection of the other identity
C12_Witness ==
  \E c \in Conns, d \in Conns, r \in Reqs :
    /\ sid[c] = "A" /\ hpc[c] = "done" /\ cleanupLog[c] = "own"
    /\ sid[d] = "B" /\ get_connection(registry, "B") = d
    /\ rconn[r] = d /\ rpc[r] = "waiting" /\ r \in pending[d]

\* C13 (as claimed): an attempt whose identity is not in the whitelist, or whose
\* token differs from the token configured for the identity, is refused and
\* leaves the registry as it is.
C13_Claimed ==
  [][\A c \in Conns, p \in Paths, s \in PeerIds, t \in PeerTokens :
       (Accept(c, p, s, t) /\ (s \notin DOMAIN _auth \/ _auth[s] # t)) =>
          hpc'[c] = "rejected" /\ registry' = registry]_vars

\* every registry entry belongs to an accepted attempt whose stripped identity is
\* in the whitelist and whose stripped token is the configured one
C13_RegisteredWereAuthorised ==
  /\ \A e \in registry :
       /\ e[1] \in DOMAIN _auth /\ sid[e[2]] = e[1]
       /\ token[e[2]] = _auth[e[1]] /\ resp[e[2]] = 0
  /\ \A c \in Conns : hpc[c] = "rejected" =>
       resp[c] \in {401, 403, 404} /\ \A e \in registry : e[2] # c
\* an attempt that fails the comparison on the stripped parameters is refused
C13_MismatchRefused ==
  \A c \in Conns : (hpc[c] = "new" /\ hpc'[c] # "new") =>
   \A p \in Paths, s \in PeerIds, t \in PeerTokens :
    ((strip(s) \notin DOMAIN _auth \/ _auth[strip(s)] # strip(t)) /\ Accept(c, p, s, t)) =>
       hpc'[c] = "rejected" /\ resp'[c] \in {401, 403, 404} /\ registry' = registry
\* C13 (amended): the identity and the token are compared after surrounding
\* whitespace is stripped from them: an attempt whose stripped identity is not in
\* the whitelist, or whose stripped token differs from the configured token, is
\* refused and never enters the registry; every identity in the registry was
\* accepted with a stripped token equal to its configured token.
C13_WhitelistEnforced ==
  [](C13_RegisteredWereAuthorised) /\ [][C13_MismatchRefused]_vars

\* an attempt was refused with 403 after a connection had been registered, and
\* the registry holds that connection only
C13_Witness ==
  \E c \in Conns, d \in Conns :
    /\ hpc[c] = "rejected" /\ resp[c] = 403
    /\ d < c /\ registry = {<<sid[d], d>>}

\* a refused attempt has no transport, was sent nothing and is not registered
C14_RefusedGotNothing ==
  \A c \in Conns : hpc[c] = "rejected" =>
    ws[c] = "none" /\ sent[c] = <<>> /\ \A e \in registry : e[2] # c
\* an attempt on another path, or without identity or token, is answered 404 / 401
\* in a step that sends nothing, closes nothing and leaves the registry alone
C14_RefusedBeforeExchange ==
  \A c \in Conns : (hpc[c] = "new" /\ hpc'[c] # "new") =>
   \A p \in Paths, s \in PeerIds, t \in PeerTokens :
    ((p # _path \/ strip(s) = "" \/ strip(t) = "") /\ Accept(c, p, s, t)) =>
       /\ hpc'[c] = "rejected"
       /\ resp'[c] = (IF p # _path THEN 404 ELSE 401)
       /\ sent' = sent /\ ws' = ws /\ closeReason' = closeReason
       /\ registry' = registry /\ pending' = pending
\* C14: an inbound attempt on a path other than the configured one, or without an
\* identity or without a token, gets its rejection response (404, 401) before any
\* envelope is exchanged: nothing is sent to it, no connection is closed because
\* of it and the registry is unchanged.
C14_RejectedBeforeEnvelopes ==
  [](C14_RefusedGotNothing) /\ [][C14_RefusedBeforeExchange]_vars

\* an attempt was answered 404 while an earlier connection stays registered,
\* open and reading
C14_Witness ==
  \E c \in Conns, d \in Conns :
    /\ hpc[c] = "rejected" /\ resp[c] = 404 /\ d < c
    /\ hpc[d] = "reading" /\ ws[d] = "open" /\ get_connection(registry, sid[d]) = d

\* the CONNECTION_ACK envelopes among those sent on a transport
AckCount(q) == Cardinality({i \in DOMAIN q : q[i].type = "CONNECTION_ACK"})

\* C15 (as claimed): every authenticated connection that was registered has had
\* exactly one CONNECTION_ACK sent on it.
C15_Claimed ==
  \A c \in Conns : hpc[c] \in {"acking", "reading", "done", "crashed"} => AckCount(sent[c]) = 1

\* at most one acknowledgement per transport, none before the registration; a
\* handler that got past the send has sent exactly one, first, with its identity
C15_OneAck ==
  \A c \in Conns :
    /\ AckCount(sent[c]) <= 1
    /\ hpc[c] \in {"new", "rejected", "prepared", "closing"} => sent[c] = <<>>
    /\ hpc[c] \in {"acking", "reading", "done"} =>
         /\ AckCount(sent[c]) = 1
         /\ sent[c][1].type = "CONNECTION_ACK" /\ sent[c][1].payload = sid[c]
\* the registration puts the connection under its identity; the acknowledgement
\* is sent in that step, after it, exactly when the transport is still open
C15_AckFollowsRegistration ==
  \A c \in Conns :
    /\ Registers(c) =>
         /\ get_connection(registry', sid[c]) = c
         /\ AckCount(sent'[c]) = (IF ws[c] = "open" THEN 1 ELSE 0)
    /\ AckCount(sent'[c]) # AckCount(sent[c]) => Registers(c)
\* C15 (amended): every authenticated connection is registered under its
\* identity; when its transport is still open at that moment exactly one
\* CONNECTION_ACK, whose payload carries the identity, is sent on it, after the
\* registration and before any other envelope; when the transport closed during
\* the handshake, the connection is registered and no CONNECTION_ACK is sent.
C15_AckAfterRegistration ==
  [](C15_OneAck) /\ [][C15_AckFollowsRegistration]_vars

\* a connection replaced an older one of its identity, is registered and reading,
\* and its acknowledgement is the only envelope sent on it
C15_Witness ==
  \E c \in Conns, o \in Conns :
    /\ o < c /\ sid[o] = sid[c] /\ hpc[o] = "done"
    /\ hpc[c] = "reading" /\ get_connection(registry, sid[c]) = c
    /\ sent[c] = <<[type |-> "CONNECTION_ACK", id |-> "uuid", payload |-> sid[c]]>>

\* the HEARTBEAT_ACK envelopes among those sent on a transport
HeartbeatAckCount(q) == Cardinality({i \in DOMAIN q : q[i].type = "HEARTBEAT_ACK"})

\* the step in which connection c receives a HEARTBEAT frame
ReceivesHeartbeat(c) == \E m \in Msgs : m.type = "HEARTBEAT" /\ RecvText(c, m)

\* C16 (as claimed): every HEARTBEAT received on an open connection with id h
\* produces exactly one HEARTBEAT_ACK with id h on that connection.
C16_Claimed ==
  [][\A c \in Conns, m \in Msgs :
       (m.type = "HEARTBEAT" /\ RecvText(c, m)) =>
          sent'[c] = Append(sent[c], [type |-> "HEARTBEAT_ACK", id |-> m.id, payload |-> "empty"])]_vars

\* C16 (amended): every HEARTBEAT received on an open connection produces exactly
\* one HEARTBEAT_ACK on that connection, and nothing on any other, however many
\* were received before and whatever requests are pending; the acknowledgement
\* carries the heartbeat's id when that id is not empty, and a fresh id when it
\* is empty; no other step sends a HEARTBEAT_ACK.
C16_HeartbeatAcked ==
  [][\A c \in Conns :
       /\ \A m \in Msgs :
            (m.type = "HEARTBEAT" /\ RecvText(c, m)) =>
               /\ sent'[c] = Append(sent[c],
                     [type |-> "HEARTBEAT_ACK", id |-> IF m.id # "" THEN m.id ELSE "uuid",
                      payload |-> "empty"])
               /\ \A d \in Conns \ {c} : sent'[d] = sent[d]
       /\ HeartbeatAckCount(sent'[c]) # HeartbeatAckCount(sent[c]) =>
            /\ ReceivesHeartbeat(c)
            /\ HeartbeatAckCount(sent'[c]) = HeartbeatAckCount(sent[c]) + 1]_vars

\* three heartbeats with the id h1 were acknowledged one by one on a connection
\* on which a request is waiting for its reply
C16_Witness ==
  \E c \in Conns, r \in Reqs :
    /\ rconn[r] = c /\ rpc[r] = "waiting" /\ r \in pending[c]
    /\ recvCount = 3 /\ HeartbeatAckCount(sent[c]) = 3
    /\ \A i \in DOMAIN sent[c] : sent[c][i].type = "HEARTBEAT_ACK" => sent[c][i].id = "h1"

\* C17: handling a HEARTBEAT changes the receiving connection's last-seen
\* timestamp (and sends the acknowledgement) and nothing else: the registry, every
\* pending table, every request's future, its value and its caller, the committed
\* events, the connections' transports and the other connections' timestamps are
\* unchanged.
C17_HeartbeatFrame ==
  [][\A c \in Conns :
       ReceivesHeartbeat(c) =>
          /\ registry' = registry /\ pending' = pending
          /\ fut' = fut /\ futValue' = futValue /\ setResults' = setResults
          /\ rpc' = rpc /\ outcome' = outcome /\ returned' = returned
          /\ events' = events /\ warned' = warned
          /\ hpc' = hpc /\ ws' = ws
          /\ lastSeen'[c] > lastSeen[c]
          /\ \A d \in Conns \ {c} : lastSeen'[d] = lastSeen[d]]_vars

\* a heartbeat was handled on one of two registered connections after an event was
\* committed: the event is kept, the other connection's timestamp is the older one
C17_Witness ==
  \E c \in Conns, d \in Conns :
    /\ c # d /\ hpc[c] = "reading" /\ hpc[d] = "reading"
    /\ get_connection(registry, sid[c]) = c /\ get_connection(registry, sid[d]) = d
    /\ Len(events) = 1 /\ lastSeen[d] = 1
    /\ lastSeen[c] = 2 /\ recvCount = 2
    /\ sent[c][Len(sent[c])].type = "HEARTBEAT_ACK"

\* text that is no JSON, or JSON that is no object
Malformed(m) == m.type \in {"INVALID_JSON", "NOT_AN_OBJECT"}

\* the inbound read loop drops a malformed frame: it is logged, the connection
\* stays open, registered and reading, and its frame touches neither a pending
\* table nor a future, commits no event and sends nothing
C18_GatewayDrops ==
  recvCount' # recvCount =>
   \A c \in Conns, m \in Msgs :
    (Malformed(m) /\ RecvText(c, m)) =>
       /\ warned'[c].what = (IF m.type = "INVALID_JSON" THEN "invalid json" ELSE "handler error")
       /\ hpc'[c] = "reading" /\ ws'[c] = "open"
       /\ hpc' = hpc /\ ws' = ws /\ registry' = registry
       /\ pending' = pending /\ fut' = fut /\ futValue' = futValue
       /\ events' = events /\ sent' = sent
\* the client's read loop drops a malformed frame: it is logged, the task goes on
\* reading the same open transport, and the flags, the transport and what was
\* sent and delivered are unchanged
C18_ClientDrops ==
  crecvCount' # crecvCount =>
   \A l \in Loops, m \in ClientMsgs :
    (Malformed(m) /\ _handle_message(l, m)) =>
       /\ clog'.what = (IF m.type = "INVALID_JSON" THEN "parse error" ELSE "handle error")
       /\ lpc'[l] = "reading" /\ tstate'[lws'[l]] = "open"
       /\ lpc' = lpc /\ tstate' = tstate /\ lws' = lws /\ client_ws' = client_ws
       /\ running' = running /\ authenticated' = authenticated
       /\ csent' = csent /\ delivered' = delivered
\* C18: a malformed inbound message (text that is no JSON, JSON that is no object)
\* is logged and dropped without closing the connection, in the inbound gateway's
\* read loop and in the outbound client's: after it the connection is open (and,
\* for the gateway, registered, its pending table unchanged) and its loop is
\* reading, so that a later frame is dispatched as it would have been.
C18_MalformedDropped == [][C18_GatewayDrops /\ C18_ClientDrops]_vars

\* in both roles the first frame was malformed and dropped and the second was
\* dispatched: the gateway, with a request pending on the connection, committed
\* the forwarded message, the client passed the chat message to its handler
C18_Witness ==
  /\ \E c \in Conns, r \in Reqs :
       /\ warned[c] = [what |-> "invalid json", at |-> 1]
       /\ lastSeen[c] = 2 /\ Len(events) = 1
       /\ hpc[c] = "reading" /\ ws[c] = "open" /\ get_connection(registry, sid[c]) = c
       /\ r \in pending[c] /\ fut[r] = "pending"
  /\ clog = [what |-> "parse error", at |-> 1]
  /\ delivered = <<"chat">> /\ crecvCount = 2
  /\ lpc[1] = "reading" /\ tstate[lws[1]] = "open"

\* a frame whose handling raises in the inbound gateway is logged by the read
\* loop, which goes on; the connection stays open and registered
C19_GatewayConfines ==
  recvCount' # recvCount =>
   \A c \in Conns, m \in Msgs :
    (HandlerRaises(m) /\ RecvText(c, m)) =>
       /\ warned'[c].what = "handler error"
       /\ hpc'[c] = "reading" /\ ws'[c] = "open"
       /\ hpc' = hpc /\ ws' = ws /\ registry' = registry
       /\ pending' = pending /\ fut' = fut
\* a registered handler of the client that raises is logged by _handle_message;
\* the task goes on reading the same open transport, the flags are unchanged
C19_ClientConfines ==
  crecvCount' # crecvCount =>
   \A l \in Loops, m \in ClientMsgs :
    (Dispatched(m) /\ m.raises /\ _handle_message(l, m)) =>
       /\ clog'.what = "handle error"
       /\ delivered' = Append(delivered, m.type)
       /\ lpc'[l] = "reading" /\ tstate'[lws'[l]] = "open"
       /\ lpc' = lpc /\ tstate' = tstate /\ lws' = lws /\ client_ws' = client_ws
       /\ running' = running /\ authenticated' = authenticated /\ csent' = csent
\* C19: when a handler raises while processing a dispatched message, the failure
\* is logged and confined to that message: the read loop goes on, the connection
\* stays open (and, for the inbound gateway, registered), so that the next frame
\* is dispatched as it would have been.
C19_HandlerFailureConfined == [][C19_GatewayConfines /\ C19_ClientConfines]_vars

\* in both roles the handler raised on the first frame and the second frame was
\* dispatched: the gateway committed the forwarded message, the client passed a
\* second chat message to its handler
C19_Witness ==
  /\ \E c \in Conns :
       /\ warned[c] = [what |-> "handler error", at |-> 1]
       /\ lastSeen[c] = 2 /\ Len(events) = 1
       /\ hpc[c] = "reading" /\ ws[c] = "open" /\ get_connection(registry, sid[c]) = c
  /\ clog = [what |-> "handle error", at |-> 1]
  /\ delivered = <<"chat", "chat">> /\ crecvCount = 2
  /\ lpc[1] = "reading" /\ tstate[lws[1]] = "open"

\* application traffic found on transport w
AppTraffic(w) == {i \in 1..Len(csent[w]) : csent[w][i] \in AppKinds}

\* a call of send_message sends only on an open current transport that received
\* auth_success, and returns True exactly when it sent
C20_SendGuarded ==
  \A k \in AppKinds :
    send_message(k) =>
       /\ csent' # csent => (is_connected /\ client_ws \in authOn)
       /\ csent' = csent => sendResult' = "false"
\* C20: the outbound client never sends application traffic (chat, command,
\* status_request) on a transport on which it has not received auth_success:
\* send_message sends only when the current transport is open and received
\* auth_success since it opened, and otherwise returns False and sends nothing.
C20_Claimed ==
  /\ [](\A w \in Dials : AppTraffic(w) # {} => w \in authOn)
  /\ [][C20_SendGuarded]_vars

\* no ws_handler of identity s is between its handshake and its registration
Settled(s) == \A c \in Conns : sid[c] = s => hpc[c] \notin {"prepared", "closing"}

\* the accepted connections of identity s whose transport is open
OpenAccepted(s) ==
  {c \in Conns : sid[c] = s /\ hpc[c] \in {"acking", "reading"} /\ ws[c] = "open"}

\* C28: one active connection per identity is retained: once the accepts for an
\* identity have registered (two of them concurrently, while an older connection
\* was being closed, included), every accepted connection other than the one the
\* registry holds has had its transport closed, so at most one accepted transport
\* of the identity is open.
C28_Claimed ==
  \A s \in Ids : Settled(s) =>
    /\ \A c \in OpenAccepted(s) : get_connection(registry, s) = c
    /\ Cardinality(OpenAccepted(s)) <= 1

\* the types of the envelopes written on a transport, in order
SentTypes(q) == [i \in DOMAIN q |-> q[i].type]

\* while requests are pending on an open connection in its read loop, the loop can
\* take every frame
C27_LoopTakesFrames ==
  \A c \in Conns : (hpc[c] = "reading" /\ ws[c] = "open" /\ pending[c] # {}) =>
    \A m \in PendingMsgs : ENABLED RecvText(c, m)
\* a frame that arrives while requests are pending is processed as ever: a
\* heartbeat is acknowledged, a reply pops the entry it names and fulfils its
\* future unless that is done already, and touches no other request, a forwarded
\* message is committed; the callers stay where they are suspended
C27_FramesProcessed ==
  recvCount' # recvCount =>
   \A c \in Conns, m \in PendingMsgs :
    (pending[c] # {} /\ RecvText(c, m)) =>
       /\ m.type = "HEARTBEAT" => sent'[c] = Append(sent[c], HeartbeatAck(m))
       /\ m.type = "MESSAGE_FORWARD" => events' = events \o CommittedEvent(c, m)
       /\ \A q \in Reqs :
            IF m.type = "BIND_CONFIRM_RESPONSE" /\ m.replyTo = q /\ q \in pending[c]
              THEN /\ q \notin pending'[c]
                   /\ fut'[q] = (IF fut[q] = "pending" THEN "result" ELSE fut[q])
              ELSE fut'[q] = fut[q] /\ (q \in pending'[c] <=> q \in pending[c])
       /\ rpc' = rpc /\ hpc'[c] = "reading" /\ ws'[c] = "open"
\* C27: a caller suspended waiting for a reply never blocks its connection's read
\* loop: while requests are pending on a connection, the loop takes the inbound
\* frames, and heartbeats, replies to other requests and forwarded messages are
\* processed and answered as they are without pending requests.
C27_ReadLoopNotBlocked == [](C27_LoopTakesFrames) /\ [][C27_FramesProcessed]_vars

\* request 1 is still pending on the connection; after it was sent, request 2 was
\* sent and fulfilled by its reply and a heartbeat was acknowledged, and a
\* forwarded message was committed
C27_Witness ==
  \E c \in Conns :
    /\ hpc[c] = "reading" /\ ws[c] = "open"
    /\ 1 \in pending[c] /\ fut[1] = "pending" /\ rpc[1] = "waiting"
    /\ fut[2] = "result" /\ rconn[2] = c
    /\ SentTypes(sent[c]) = <<"CONNECTION_ACK", "BIND_CONFIRM_REQUEST", "BIND_CONFIRM_REQUEST",
                               "HEARTBEAT_ACK">>
    /\ sent[c][2].id = 1
    /\ Len(events) = 1 /\ recvCount = 3

\* a reply-shaped frame whose replyTo is missing or names no entry of the
\* receiving connection's pending table
Unmatched(c, m) ==
  m.type \in ResponseTypes /\ (m.replyTo = None \/ m.replyTo \notin pending[c])

\* C29: a reply envelope whose replyTo is missing or matches no pending id on the
\* receiving connection (never issued, already fulfilled, already timed out) is a
\* no-op: the pending tables, every request's future, value and task, the registry
\* and the connection's open state are unchanged, nothing is sent, no event is
\* committed and no caller is resumed.
C29_UnmatchedReplyNoOp ==
  [][recvCount' # recvCount =>
      \A c \in Conns, m \in Msgs :
        (Unmatched(c, m) /\ RecvText(c, m)) =>
           /\ pending' = pending /\ removals' = removals
           /\ fut' = fut /\ futValue' = futValue /\ setResults' = setResults
           /\ rpc' = rpc /\ outcome' = outcome /\ returned' = returned
           /\ registry' = registry /\ ws' = ws /\ hpc' = hpc
           /\ sent' = sent /\ events' = events /\ warned' = warned]_vars

\* three reply frames arrived on the connection and nothing else (no heartbeat was
\* acknowledged, no event committed): one fulfilled request 2, the others matched
\* no pending entry, and request 1 is still pending, untouched
C29_Witness ==
  \E c \in Conns :
    /\ hpc[c] = "reading" /\ ws[c] = "open" /\ get_connection(registry, sid[c]) = c
    /\ recvCount = 3 /\ lastSeen[c] = 3
    /\ events = <<>> /\ HeartbeatAckCount(sent[c]) = 0
    /\ fut[2] = "result" /\ setResults[2] = 1 /\ removals[2] = 1 /\ rconn[2] = c
    /\ pending[c] = {1} /\ fut[1] = "pending" /\ setResults[1] = 0

\* the step in which loop l starts a connection attempt
Attempts(l) == lpc[l] # "connecting" /\ lpc'[l] = "connecting"

\* an auth_failed frame clears the keep-running flag and the authenticated flag
C21_AuthFailedClearsFlag ==
  crecvCount' # crecvCount =>
   \A l \in Loops, m \in ClientMsgs :
    (m.type = "auth_failed" /\ _handle_message(l, m)) =>
       ~running' /\ ~authenticated' /\ clog'.what = "auth failed"
\* a connection attempt starts only while the flag is set, whatever auto_reconnect
\* is, and no loop goes to sleep for a next attempt while the flag is cleared: a
\* loop that leaves its transport then ends
C21_NoAttemptUnlessRunning ==
  \A l \in Loops :
    /\ Attempts(l) => running
    /\ (~running /\ lpc'[l] = "sleeping") => lpc[l] = "sleeping"
    /\ (~running /\ lpc[l] = "reading" /\ lpc'[l] # "reading") =>
          lpc'[l] \in {"ended", "cancelled"}
\* the flag is set again by start only
C21_OnlyStartSetsFlag == (~running /\ running') => \E l \in Loops : start(l)
\* C21: after the client received auth_failed its reconnection loop makes no
\* further connection attempt, auto_reconnect enabled or not, until start is called
\* again: auth_failed clears the keep-running flag, nothing but start sets it
\* again, and no attempt starts while it is cleared.
C21_AuthFailedIsTerminal ==
  [][C21_AuthFailedClearsFlag /\ C21_NoAttemptUnlessRunning /\ C21_OnlyStartSetsFlag]_vars

\* with auto_reconnect enabled the client received auth_failed, the server closed
\* the transport, and the loop ended instead of sleeping; start was not called
\* again, stop and reconnect never were
C21_Witness ==
  /\ auto_reconnect /\ clog.what = "auth failed" /\ ~running
  /\ lpc[1] = "ended" /\ tstate[1] = "closed" /\ lws[1] = 1
  /\ lpc[2] = "unborn" /\ tstate[2] = "none"
  /\ spc = "idle" /\ recpc = "idle"

\* C22: from every state of the client, stop() leads to the stopped state: when
\* stop() returns the keep-running flag is false, no transport is open, the client
\* is not authenticated and no connect loop is left that could make a connection
\* attempt afterwards.
C22_Claimed ==
  [][(spc # "returned" /\ spc' = "returned") =>
       /\ ~running'
       /\ \A w \in Dials : tstate'[w] # "open"
       /\ ~authenticated'
       /\ \A l \in Loops : lpc'[l] \in {"unborn", "ended", "cancelled"}]_vars

\* the step in which an attempt of loop l ends: the dial failed, or the transport
\* it read closed or failed
AttemptEnds(l) ==
  lpc[l] \in {"connecting", "reading"} /\ lpc'[l] \notin {"connecting", "reading", "cancelled"}

\* after an attempt the loop sleeps reconnect_interval when the flag is set and
\* auto_reconnect is enabled, and ends otherwise
C23_SleepsOrEnds ==
  \A l \in Loops : AttemptEnds(l) =>
    IF running /\ auto_reconnect
      THEN lpc'[l] = "sleeping" /\ sleepLeft'[l] = reconnect_interval
      ELSE lpc'[l] = "ended" /\ sleepLeft'[l] = 0
\* the sleep ends when it has elapsed, not before, and the loop then dials (the
\* flag still set) or ends (the flag cleared meanwhile), unless it was cancelled
C23_WakesWhenElapsed ==
  \A l \in Loops : (lpc[l] = "sleeping" /\ lpc'[l] # "sleeping") =>
    \/ lpc'[l] = "cancelled"
    \/ sleepLeft[l] = 0 /\ lpc'[l] = (IF running THEN "connecting" ELSE "ended")
\* the sleep runs on the clock: a second at a time, and no second passes while a
\* loop whose sleep has elapsed has not taken its step
C23_NoExtraDelay ==
  \A l \in Loops : (lpc[l] = "sleeping" /\ lpc'[l] = "sleeping") =>
    /\ sleepLeft'[l] \in {sleepLeft[l], sleepLeft[l] - 1}
    /\ (sleepLeft[l] = 0 /\ Runs(l)) =>
         /\ \A k \in Loops : (lpc[k] = "sleeping" /\ lpc'[k] = "sleeping") =>
                               sleepLeft'[k] = sleepLeft[k]
         /\ recDue' => recDue
\* C23: each time a connection attempt of the client has ended (failed dial,
\* transport closed or failed): with auto_reconnect enabled and the keep-running
\* flag set the loop waits one reconnect interval, no less and no more, and then
\* starts the next attempt; otherwise it makes no further attempt and ends.
C23_ReconnectAfterInterval ==
  [][C23_SleepsOrEnds /\ C23_WakesWhenElapsed /\ C23_NoExtraDelay]_vars

\* the only loop lost its first transport, slept and dialed the second one; stop
\* and reconnect were never called
C23_Witness ==
  /\ auto_reconnect /\ running
  /\ lpc[1] = "reading" /\ lws[1] = 2 /\ tstate[2] = "open"
  /\ tstate[1] \in {"closed", "error"}
  /\ lpc[2] = "unborn" /\ spc = "idle" /\ recpc = "idle"

\* C24: whenever the client's transport closes or fails while it is authenticated,
\* the client leaves the authenticated state: when the read loop has ended for the
\* transport in self.ws the authenticated flag is false, whether the transport
\* closed cleanly or with an error.
C24_Claimed ==
  [][\A l \in Loops :
       (lpc[l] = "reading" /\ lpc'[l] # "reading" /\ lws[l] = client_ws) =>
          ~authenticated']_vars

\* C25: reconnect() called while the client is connected closes the current
\* transport and is followed by a new connection attempt, with auto_reconnect
\* enabled or disabled: the running loop that leaves the transport reconnect()
\* closed goes on to its next attempt (stop() not being called).
C25_Claimed ==
  [][\A l \in Loops :
       (/\ recClosed # None /\ lws[l] = recClosed /\ recpc # "closing"
        /\ running /\ spc = "idle"
        /\ lpc[l] = "reading" /\ lpc'[l] # "reading") =>
          lpc'[l] \in {"sleeping", "connecting"}]_vars

\* the step in which reconnect() returns
ReconnectReturns == recpc # "done" /\ recpc' = "done"

\* reconnect polls at most `timeout` times
C26_PollsBounded ==
  /\ recPolls <= recTimeout
  /\ recpc = "polling" => recPolls < recTimeout
  /\ recpc = "done" <=> recResult # "none"
\* a poll reports success exactly when it finds the client connected and
\* authenticated, and then self.ws is a transport opened after reconnect() was
\* called, not the one it closed
C26_SuccessIffPollSaw ==
  (recPolls' = recPolls + 1) =>
     /\ recResult' = "success" <=> (is_connected /\ authenticated)
     /\ recResult' = "success" =>
          (client_ws > recFrom /\ client_ws # recClosed /\ client_ws \in authOn)
\* the report: success only from a poll; failure after the last poll, telling
\* connected-but-not-authenticated from the rest, which is "not connected" whenever
\* there was a poll
C26_Report ==
  ReconnectReturns =>
     /\ recResult' \in {"success", "unauthenticated", "failed"}
     /\ recResult' = "success" => recPolls' > recPolls
     /\ recResult' # "success" =>
          /\ recPolls' = recTimeout
          /\ recResult' = (IF is_connected /\ ~authenticated THEN "unauthenticated"
                           ELSE "failed")
          /\ recTimeout > 0 => ~(is_connected /\ authenticated)
\* C26: reconnect(timeout) always terminates, after at most `timeout` polls; it
\* reports success if and only if one of its polls found the client connected and
\* authenticated, on a transport opened after reconnect() was called; otherwise it
\* reports failure, telling connected-but-not-authenticated from not connected.
C26_ReconnectReports ==
  /\ [](C26_PollsBounded)
  /\ [][C26_SuccessIffPollSaw /\ C26_Report]_vars
  /\ (recpc # "idle" ~> recpc = "done")

\* reconnect(2) closed transport 1, its first poll found the client not connected,
\* its second found it authenticated on transport 2
C26_Witness ==
  /\ recpc = "done" /\ recResult = "success" /\ recTimeout = 2 /\ recPolls = 2
  /\ recClosed = 1 /\ client_ws = 2 /\ tstate[2] = "open" /\ 2 \in authOn

\* no protocol message is among the messages passed to a handler
C30_NoneDelivered == \A i \in DOMAIN delivered : delivered[i] \notin ControlTypes
\* a protocol message is handled by _handle_message itself: auth_required sends
\* the credential, auth_success and auth_failed set the flags, and nothing is
\* passed to a handler
C30_HandledInternally ==
  crecvCount' # crecvCount =>
   \A l \in Loops, m \in ClientMsgs :
    (m.type \in ControlTypes /\ _handle_message(l, m)) =>
       /\ delivered' = delivered
       /\ m.type = "auth_required" => csent' = _send_auth(csent)
       /\ m.type = "auth_success" => authenticated'
       /\ m.type = "auth_failed" => ~authenticated' /\ ~running'
\* C30: protocol control messages received by the client (auth_required,
\* auth_success, auth_failed, error) are handled internally and never passed to a
\* registered handler, even when a handler is registered under that message type.
C30_ControlNotDispatched == [](C30_NoneDelivered) /\ [][C30_HandledInternally]_vars

\* handlers were registered under auth_success and error; then auth_success and a
\* chat message arrived: the client is authenticated and only the chat message was
\* passed to a handler
C30_Witness ==
  /\ {"auth_success", "error"} \subseteq _message_handlers
  /\ authenticated /\ 1 \in authOn
  /\ crecvCount = 2 /\ delivered = <<"chat">>

\* the step in which loop l reads a frame and _handle_message handles it
Handles(l) == crecvCount' # crecvCount /\ \E m \in ClientMsgs : _handle_message(l, m)

\* no task of the client is left that could dial or read
Stopped == \A l \in Loops : lpc[l] \in {"unborn", "ended", "cancelled"}

\* no frame is handled on a transport on which auth_failed was received
C31_NoLaterMessage ==
  \A l \in Loops : Handles(l) => "auth_failed" \notin seenOn[lws[l]]
\* C31: after the client received auth_failed on a transport it reaches the stopped
\* state by itself, the peer doing nothing more: the transport is closed, the read
\* loop ends, and no later frame on that transport is handled.
C31_Claimed ==
  /\ [][C31_NoLaterMessage]_vars
  /\ \A w \in Dials : ("auth_failed" \in seenOn[w]) ~> (tstate[w] # "open" /\ Stopped)

\* a _connect_loop task that is alive and not about to be cancelled
Active(l) == lpc[l] \in {"created", "connecting", "reading", "sleeping"} /\ Runs(l)

\* C38: at most one _connect_loop task of the client is alive at any time, after
\* any sequence of start(), stop(), reconnect() and received frames.
C38_Claimed == Cardinality({l \in Loops : Active(l)}) <= 1

\* C39: once auth_failed was received on a transport the client is never
\* authenticated on it afterwards, and send_message sends no application traffic on
\* it.
C39_Claimed ==
  /\ [](\A w \in Dials : "auth_failed" \in seenOn[w] =>
                            ~(authenticated /\ is_connected /\ client_ws = w))
  /\ [][\A k \in AppKinds : (sendCount' # sendCount /\ send_message(k) /\ csent' # csent) =>
                               "auth_failed" \notin seenOn[client_ws]]_vars

\* the frame by which the server asks for the credential
AuthRequired == [type |-> "auth_required", raises |-> FALSE]

\* how many times the credential is found in what was sent on a transport
AuthCount(q) == Cardinality({i \in 1..Len(q) : q[i] = "auth"})

\* nothing is sent on a transport before the server's auth_required arrived on it
\* (or its auth_success, when the server asks for no credential)
C34_NothingBeforeRequest ==
  \A w \in Dials : csent[w] # <<>> => ("auth_required" \in seenOn[w] \/ w \in authOn)
\* the credential goes out only in the step that handles an auth_required frame, on
\* the transport the frame arrived on
C34_AuthAnswersRequest ==
  \A w \in Dials : AuthCount(csent'[w]) > AuthCount(csent[w]) =>
     \E l \in Loops : lws[l] = w /\ _handle_message(l, AuthRequired)
\* each auth_required frame handled sends the credential once, on the transport the
\* frame arrived on, and nothing else
C34_OneAuthPerRequest ==
  \A l \in Loops : (crecvCount' # crecvCount /\ _handle_message(l, AuthRequired)) =>
     csent' = [csent EXCEPT ![lws[l]] = Append(@, "auth")]
\* C34: the client sends its credential only in answer to an auth_required frame
\* and on the transport it arrived on: nothing is sent on a newly opened transport
\* before auth_required arrived on it, and each auth_required handled sends exactly
\* one auth message.
C34_Claimed ==
  /\ [](C34_NothingBeforeRequest)
  /\ [][C34_AuthAnswersRequest /\ C34_OneAuthPerRequest]_vars

\* the step of a send_by_session or MinecraftGatewayEvent.send call
SenderStep == bcastCount' # bcastCount

\* the target the claim asks for: the player when one is given, else the broadcast
ExpectedTarget(player_uuid) ==
  IF player_uuid = "NONE" \/ player_uuid = ""
    THEN [type |-> "BROADCAST", playerUuid |-> "NONE"]
    ELSE [type |-> "PLAYER", playerUuid |-> player_uuid]

\* exactly one MESSAGE_INCOMING envelope with that text and target is appended to
\* what was sent on connection c, and nothing is sent on any other
OneIncoming(c, player_uuid, text) ==
  \E id \in {"uuid", "0"} :
    sent' = [sent EXCEPT ![c] = Append(@, [type |-> "MESSAGE_INCOMING", id |-> id,
                                            payload |-> text,
                                            target |-> ExpectedTarget(player_uuid)])]

\* what the claim says of a call: one envelope for text and a registered
\* connection, none otherwise, the registry untouched
Claimed35(server_id, player_uuid, text) ==
  /\ registry' = registry
  /\ IF get_connection(registry, server_id) # None /\ strip(text) # ""
       THEN OneIncoming(get_connection(registry, server_id), player_uuid, strip(text))
       ELSE sent' = sent

\* the same, a registered connection whose transport is no longer open told
\* apart: the call raises and sends nothing
Amended35(server_id, player_uuid, text) ==
  /\ registry' = registry
  /\ IF get_connection(registry, server_id) # None /\ strip(text) # ""
       THEN IF ws[get_connection(registry, server_id)] = "open"
              THEN /\ OneIncoming(get_connection(registry, server_id), player_uuid, strip(text))
                   /\ bcastResult' = "sent"
              ELSE sent' = sent /\ bcastResult' = "raised"
       ELSE sent' = sent /\ bcastResult' = "skipped"

\* C35 (as claimed): send_by_session and the event's send, called with text for an
\* identity the registry holds a connection for, send exactly one MESSAGE_INCOMING
\* envelope on that connection, targeted at the player when one is given and
\* broadcast otherwise; without a connection or without text they send nothing;
\* the registry is unchanged.
C35_Claimed ==
  [][SenderStep =>
       Claimed35(bcastCall'.server_id, bcastCall'.player_uuid, bcastCall'.text)]_vars

\* C35 (amended): the same when the transport of the identity's registered
\* connection is open; when that transport is already closed the call raises,
\* no envelope is sent and the registry is unchanged.
C35_BroadcastOrDirect ==
  [][SenderStep =>
       Amended35(bcastCall'.server_id, bcastCall'.player_uuid, bcastCall'.text)]_vars

\* a message for player u1 was sent on the acknowledged connection of identity A
C35_Witness ==
  \E c \in Conns :
    /\ get_connection(registry, "A") = c /\ ws[c] = "open" /\ bcastResult = "sent"
    /\ Len(sent[c]) = 2 /\ sent[c][1].type = "CONNECTION_ACK"
    /\ sent[c][2].type = "MESSAGE_INCOMING" /\ sent[c][2].target.type = "PLAYER"
    /\ sent[c][2].target.playerUuid = "u1" /\ sent[c][2].payload = "hi"

\* whatever was sent on a connection begins with its CONNECTION_ACK
C40_AckLeads ==
  \A c \in Conns : sent[c] # <<>> =>
    sent[c][1] = [type |-> "CONNECTION_ACK", id |-> "uuid", payload |-> sid[c]]
\* the first envelope on a connection is written in the step that registers it, and
\* a request or MESSAGE_INCOMING envelope is written only on a registered
\* connection that has its CONNECTION_ACK already
C40_FirstIsWrittenOnRegistering ==
  \A c \in Conns :
    /\ (sent[c] = <<>> /\ sent'[c] # <<>>) => (Registers(c) /\ Len(sent'[c]) = 1)
    /\ (sent'[c] # sent[c] /\ ~Registers(c)) =>
          (sent[c] # <<>> /\ get_connection(registry, sid[c]) = c)
\* C40: CONNECTION_ACK is the first envelope sent on every accepted connection,
\* however the accept is interleaved with request callers and senders that look
\* the identity up: no request or MESSAGE_INCOMING envelope goes out on the new
\* connection before its CONNECTION_ACK.
C40_AckFirst == [](C40_AckLeads) /\ [][C40_FirstIsWrittenOnRegistering]_vars

\* while the handler of a connection was still suspended in send_json of its
\* CONNECTION_ACK, a request and a message were sent on the connection, after it
C40_Witness ==
  \E c \in Conns :
    /\ hpc[c] = "acking" /\ Len(sent[c]) = 3
    /\ sent[c][1].type = "CONNECTION_ACK"
    /\ {sent[c][2].type, sent[c][3].type} = {"BIND_CONFIRM_REQUEST", "MESSAGE_INCOMING"}

\* the ws_handler of an accepted connection has ended: its finally block has run,
\* or send_json of the CONNECTION_ACK raised
Finished(c) == hpc[c] \in {"done", "crashed"}

\* C37: the registry never retains a connection whose handler has finished: once
\* the ws_handler of an accepted connection has ended, for whatever reason (read
\* loop ended, transport error, failure while sending CONNECTION_ACK), the registry
\* does not map its identity to that connection.
C37_Claimed ==
  \A c \in Conns : Finished(c) => get_connection(registry, sid[c]) # c

\* the connection whose read loop took the frame of this step
Receiver == CHOOSE c \in Conns : lastSeen'[c] = recvCount'

\* request r waits in the pending table of the connection it was sent on
PendingOn(r, c) == rconn[r] = c /\ r \in pending[c]

\* a request is entered in no pending table but that of the connection it was
\* sent on
C33_OwnTableOnly == \A r \in Reqs, c \in Conns : r \in pending[c] => rconn[r] = c

\* a frame read on one connection leaves the requests pending on every other
\* connection as they are: future, value, pending entry and task
C33_OtherConnectionUntouched ==
  recvCount' # recvCount =>
    \A r \in Reqs, c \in Conns :
      (PendingOn(r, c) /\ c # Receiver) =>
         /\ fut'[r] = fut[r] /\ futValue'[r] = futValue[r]
         /\ setResults'[r] = setResults[r] /\ removals'[r] = removals[r]
         /\ pending'[c] = pending[c] /\ rpc'[r] = rpc[r]

\* a future becomes fulfilled only in a step that reads, on the connection the
\* request was sent on, a BIND_CONFIRM_RESPONSE whose replyTo is the request's id
C33_FulfilledByOwnConnection ==
  \A r \in Reqs :
    (fut[r] # "result" /\ fut'[r] = "result") =>
       /\ recvCount' # recvCount /\ PendingOn(r, rconn[r])
       /\ \E m \in Msgs : m.replyTo = r /\ IsReplyType(m.type) /\ RecvText(rconn[r], m)

\* C33: a reply fulfils a pending request only when it arrives on the connection
\* that sent the request: while a request is pending on connection C of identity
\* X and C has been replaced by C', a reply carrying the request's id that arrives
\* on C' does not fulfil it and leaves C's pending table unchanged.
C33_ReplyOnOwnConnectionOnly ==
  /\ [](C33_OwnTableOnly)
  /\ [][C33_OtherConnectionUntouched /\ C33_FulfilledByOwnConnection]_vars

\* request 1 still waits, unfulfilled, on connection C, which connection C' of the
\* same identity has replaced in the registry; the last frame arrived on C', it
\* was of the reply type (no acknowledgement sent, no event, no warning), and no
\* entry was ever removed from a pending table
C33_Witness ==
  \E c \in Conns, d \in Conns :
    /\ c # d /\ sid[c] = sid[d] /\ get_connection(registry, sid[c]) = d
    /\ PendingOn(1, c) /\ fut[1] = "pending" /\ rpc[1] = "waiting"
    /\ hpc[d] = "reading" /\ recvCount >= 1 /\ lastSeen[d] = recvCount
    /\ sent[d] = <<ConnectionAck(sid[d])>> /\ events = <<>> /\ warned[d].at = 0
    /\ \A r \in Reqs : removals[r] = 0 /\ setResults[r] = 0

\* C36: the class-level running flag ensures that only one MinecraftAdapter
\* instance is running: after any sequence of instance creations, _safe_start
\* calls and terminate calls (terminate on an instance whose start was skipped
\* included), at most one instance has a started WebSocket client at any time.
C36_Claimed == Cardinality({i \in Instances : ws_running[i]}) <= 1

\* task t is suspended: it waits for a reply, sleeps, closes a transport, sends an
\* envelope, reads, or waits for the lock
Suspended(t) == tst[t] \in {"awaiting", "lock_wait"}

\* the running task stands before a registry operation
AtRegistryCall(t) == cur = t /\ tst[t] = "running" /\ ~AtEnd(t) /\ Op(t).op = "acquire"

\* C32: no task holds the registry lock across a suspension point: in every
\* reachable state in which some task is waiting for a reply, sleeping, closing a
\* transport or sending an envelope, that task does not hold the registry lock, so
\* every registry operation by another task can complete (it finds the lock free
\* and never has to wait for it).
C32_NoLockAcrossSuspension ==
  /\ \A t \in LockTasks : Suspended(t) \/ tst[t] \in {"scheduled", "done"} => _lock # t
  /\ \A t \in LockTasks : tst[t] # "lock_wait"
  /\ \A t \in LockTasks : AtRegistryCall(t) => _lock = None
  /\ _lock # None => cur = _lock

\* a caller waits for a reply and a handler that replaced another is closing the
\* old transport, while a third task is inside a registry operation, holding the
\* lock
C32_Witness ==
  \E t \in LockTasks, u \in LockTasks, v \in LockTasks :
    /\ tst[t] = "awaiting" /\ Op(t).op = "wait_reply"
    /\ tst[u] = "awaiting" /\ Op(u).op = "close"
    /\ cur = v /\ _lock = v /\ v \notin {t, u}
====
